---- MODULE Spec2Model ----
(***************************************************************************)
(* AetherGuard activity-integrity and scoring engine.                      *)
(*                                                                         *)
(* State machine of modules/activityTracker.js (event queue, batch flush,  *)
(* reaction guard, anomaly baseline), database/db.js (daily caps, scoring, *)
(* counters rows) and utils/securityLogger.js (flags, penalty ledger).     *)
(*                                                                         *)
(* Conventions                                                             *)
(*  - Time is the millisecond clock Date.now(); the date string            *)
(*    new Date().toISOString().split('T')[0] is the day number             *)
(*    now \div DayMs.                                                      *)
(*  - REAL columns (scores, multipliers) are kept in hundredths, so that   *)
(*    Math.round(x * 100) / 100 is an integer rounding.                    *)
(*  - SQL NULL / JS null / undefined is a record with present = FALSE      *)
(*    (settings, verified user) or exists = FALSE (rows, map entries).     *)
(***************************************************************************)
EXTENDS Integers, Sequences, FiniteSets, TLC

\* ------------------------------------------------------------------ bounds
\* Total number of trackActivity calls in a behaviour.
MaxEvents == 3
\* Total number of failing store accesses in a behaviour.
MaxFailures == 1
\* Last day number the clock reaches in the flush specification.
MaxDay == 1
\* Largest voice magnitude (minutes) of one voice event.
MaxVoiceValue == 3
\* Total number of gateway events (messages, reactions) in a behaviour.
MaxDeliveries == 3
\* Number of gateway handlers suspended at an await at one time.
MaxInFlight == 1
\* Total number of commands in a behaviour of the ledger specification.
MaxCommands == 2
\* Number of four-day steps of the clock in the ledger specification.
MaxIdleSteps == 2
\* Total number of reactions in a behaviour of the reaction specification.
MaxReactions == 32
\* Number of three-minute steps of the clock in the reaction specification.
MaxReactionSteps == 2
\* Number of cooldown periods the clock advances in the gate specification.
MaxCooldowns == 1
\* voice state updates delivered
MaxVoiceUpdates == 3
\* waits of a minute and a half, and stays of more than four hours
MaxShortWaits == 2
MaxLongStays == 2
\* runs of the voice timer
MaxVoiceTicks == 2
\* messages delivered to the quality filter
MaxMessages == 3
\* waits of half a cooldown, and of a whole spam window
MaxHalfCooldowns == 2
MaxSpamWindows == 1
\* longest run of one character in a message
MaxRun == 12

\* ------------------------------------------------------------------ universe
Guilds == {"g1", "g2"}
Users == {"u1", "u2"}
Actors == Guilds \X Users
Types == {"message", "reply", "reaction", "voice"}
\* Two processBatch invocations can be in flight at once: setInterval fires
\* the next one while an earlier one is suspended at an await.
FlushIds == {"f1", "f2"}

MinuteMs == 60 * 1000
HourMs == 60 * 60 * 1000
DayMs == 24 * 60 * 60 * 1000

Min(a, b) == IF a <= b THEN a ELSE b
Max(a, b) == IF a >= b THEN a ELSE b

VARIABLES
  now,                 \* Date.now()
  activity_settings,   \* table activity_settings: guild -> row or NULL
  verified_users,      \* table verified_users: actor -> row or NULL
  rows,                \* table activity_tracking: actor -> row or NULL
  activityQueue,       \* activityTracker.js: let activityQueue = []
  flush,               \* the in-flight processBatch invocations
  activityBaseline,    \* activityTracker.js: activityBaseline map
  userBehaviorTracker, \* securityLogger.js: userBehaviorTracker map
  reactionTracker,     \* activityTracker.js: reactionTracker map
  recentMessages,      \* activityTracker.js: recentMessages map (by user id)
  spamTracker,         \* activityTracker.js: spamTracker map (by user id)
  userMessageHistory,  \* activityTracker.js: userMessageHistory map (by user id)
  pending,             \* gateway handlers suspended at an await
  deliveries,          \* history: number of gateway events and commands so far
  gated,               \* history: number of gateway events stopped at the gate
  expired,             \* history: actors whose flags cleanupOldLogs deleted
  nextId,              \* history: number of events created so far
  aggCount,            \* history: event id -> number of cycles that aggregated it
  failures,            \* history: number of failed store accesses
  raced,               \* history: rows written from an out-of-date read
  voiceSessions,       \* activityTracker.js: voiceSessions map
  discordClient,       \* activityTracker.js: discordClient is set (not null)
  inVoice,             \* the platform: actor -> the voice channel it is in
  others,              \* the platform: channels an unmodelled member is in
  voiceCalc,           \* history: the calcEffectiveVoiceMinutes calls of the last
                       \* voice handler or timer run
  voiceTicks,          \* history: number of runs of processVoiceSessions
  lastReturn,          \* history: the return shouldScoreMessage took last
  lastContent,         \* history: the content it was last called with
  lastFlushEmpty       \* history: the last processBatch found the queue empty

\* What the flush never touches: the handlers' maps and their history.
handlerVars == <<reactionTracker, recentMessages, spamTracker,
                 userMessageHistory, pending, deliveries, gated, expired>>

\* The voice tracker and the voice channel.
voiceVars == <<voiceSessions, discordClient, inVoice, others, voiceCalc,
              voiceTicks>>

\* What the model remembers of the last filter call and the last flush.
logVars == <<lastReturn, lastContent, lastFlushEmpty>>

vars == <<now, activity_settings, verified_users, rows, activityQueue, flush,
          activityBaseline, userBehaviorTracker, handlerVars,
          nextId, aggCount, failures, raced, voiceVars, logVars>>

Today == now \div DayMs

\* ------------------------------------------------------------------ store data
NULL_SETTINGS == [present |-> FALSE]

\* A settings row as /activity-setup writes it: schema defaults for scores and
\* tiers, caps chosen by the administrator (minimum 1).
SettingsRow(mcap, rcap, xcap, vcap, bonus) ==
  [present |-> TRUE, enabled |-> 1,
   tracking_channels |-> [set |-> FALSE, channels |-> {}],
   message_score |-> 100, reply_score |-> 200,
   reaction_score |-> 50, voice_score |-> 10,
   daily_message_cap |-> mcap, daily_reply_cap |-> rcap,
   daily_reaction_cap |-> xcap, daily_voice_cap |-> vcap,
   nft_bonus_enabled |-> bonus,
   nft_tier1_count |-> 1, nft_tier1_multiplier |-> 100,
   nft_tier2_count |-> 3, nft_tier2_multiplier |-> 120,
   nft_tier3_count |-> 5, nft_tier3_multiplier |-> 150]

NULL_VERIFIED == [present |-> FALSE, nft_balance |-> 0]
VerifiedRow(n) == [present |-> TRUE, nft_balance |-> n]

NULL_ROW ==
  [exists |-> FALSE,
   message_count |-> 0, reply_count |-> 0, reaction_count |-> 0,
   voice_minutes |-> 0, total_score |-> 0, week_score |-> 0,
   daily_messages |-> 0, daily_replies |-> 0, daily_reactions |-> 0,
   daily_voice |-> 0, daily_reset_date |-> 0]

\* ------------------------------------------------------------------ db.js
\* (a score taken from the settings row only)
messageScoreOfRow(settings) == IF settings.present THEN settings.message_score ELSE 0

\* batchUpdateActivity: settings?.x ?? default
messageScore(settings) == IF settings.present THEN settings.message_score ELSE 100
replyScore(settings) == IF settings.present THEN settings.reply_score ELSE 200
reactionScore(settings) == IF settings.present THEN settings.reaction_score ELSE 50
voiceScore(settings) == IF settings.present THEN settings.voice_score ELSE 10
dailyMessageCap(settings) == IF settings.present THEN settings.daily_message_cap ELSE 100
dailyReplyCap(settings) == IF settings.present THEN settings.daily_reply_cap ELSE 50
dailyReactionCap(settings) == IF settings.present THEN settings.daily_reaction_cap ELSE 50
dailyVoiceCap(settings) == IF settings.present THEN settings.daily_voice_cap ELSE 120

\* (a decrement without the floors)
decrementUnfloored(row, type, value) ==
  IF ~row.exists THEN row
  ELSE IF type = "message"
    THEN [row EXCEPT !.message_count = @ - value,
                     !.total_score = @ - value * 100,
                     !.week_score = @ - value * 100]
  ELSE IF type = "reply"
    THEN [row EXCEPT !.reply_count = @ - value,
                     !.total_score = @ - value * 200,
                     !.week_score = @ - value * 200]
  ELSE row

\* decrementActivity(guildId, userId, type, value): the UPDATE applied to the
\* actor's row (no row, no change); scoreDeduction in hundredths
decrementActivity(row, type, value) ==
  IF ~row.exists THEN row
  ELSE IF type = "message"
    THEN [row EXCEPT !.message_count = Max(0, @ - value),
                     !.total_score = Max(0, @ - value * 100),
                     !.week_score = Max(0, @ - value * 100)]
  ELSE IF type = "reply"
    THEN [row EXCEPT !.reply_count = Max(0, @ - value),
                     !.total_score = Max(0, @ - value * 200),
                     !.week_score = Max(0, @ - value * 200)]
  ELSE row

\* x || d for a multiplier column: 0 and null are falsy
OrDefault(x, d) == IF x # 0 THEN x ELSE d

\* (the tiers tried from low to high)
getNftMultiplierLowFirst(verifiedUser, settings) ==
  IF settings.nft_bonus_enabled = 0 THEN 100
  ELSE IF ~verifiedUser.present THEN 100
  ELSE LET nftBalance == verifiedUser.nft_balance IN
       IF nftBalance >= settings.nft_tier1_count
         THEN OrDefault(settings.nft_tier1_multiplier, 100)
       ELSE IF nftBalance >= settings.nft_tier2_count
         THEN OrDefault(settings.nft_tier2_multiplier, 120)
       ELSE IF nftBalance >= settings.nft_tier3_count
         THEN OrDefault(settings.nft_tier3_multiplier, 150)
       ELSE 100

\* getNftMultiplier(guildId, userId, settings), in hundredths
getNftMultiplier(verifiedUser, settings) ==
  IF settings.nft_bonus_enabled = 0 THEN 100
  ELSE IF ~verifiedUser.present THEN 100
  ELSE LET nftBalance == verifiedUser.nft_balance IN
       IF nftBalance >= settings.nft_tier3_count
         THEN OrDefault(settings.nft_tier3_multiplier, 150)
       ELSE IF nftBalance >= settings.nft_tier2_count
         THEN OrDefault(settings.nft_tier2_multiplier, 120)
       ELSE IF nftBalance >= settings.nft_tier1_count
         THEN OrDefault(settings.nft_tier1_multiplier, 100)
       ELSE 100

\* What getDailyActivity returns when there is no row or the date is stale.
FreshDaily(today) ==
  [daily_messages |-> 0, daily_replies |-> 0, daily_reactions |-> 0,
   daily_voice |-> 0, daily_reset_date |-> today]

\* What getDailyActivity returns otherwise: the row's own daily fields.
DailyOf(row) ==
  [daily_messages |-> row.daily_messages, daily_replies |-> row.daily_replies,
   daily_reactions |-> row.daily_reactions, daily_voice |-> row.daily_voice,
   daily_reset_date |-> row.daily_reset_date]

\* getDailyActivity: UPDATE ... SET daily_* = 0, daily_reset_date = today
ResetRow(row, today) ==
  IF ~row.exists THEN row
  ELSE [row EXCEPT !.daily_messages = 0, !.daily_replies = 0,
                   !.daily_reactions = 0, !.daily_voice = 0,
                   !.daily_reset_date = today]

\* Math.min(count, Math.max(0, cap - used))
ClampToCap(count, cap, used) == Min(count, Max(0, cap - used))

\* batchUpdateActivity: the countable amounts of one update
EffectiveCounts(update, dailyData, settings) ==
  [messages |-> ClampToCap(update.message_count, dailyMessageCap(settings),
                           dailyData.daily_messages),
   replies |-> ClampToCap(update.reply_count, dailyReplyCap(settings),
                          dailyData.daily_replies),
   reactions |-> ClampToCap(update.reaction_count, dailyReactionCap(settings),
                            dailyData.daily_reactions),
   voice |-> ClampToCap(update.voice_minutes, dailyVoiceCap(settings),
                        dailyData.daily_voice)]

AllZero(eff) ==
  eff.messages = 0 /\ eff.replies = 0 /\ eff.reactions = 0 /\ eff.voice = 0

\* baseScore, in hundredths
BaseScore(eff, settings) ==
  eff.messages * messageScore(settings) + eff.replies * replyScore(settings)
  + eff.reactions * reactionScore(settings) + eff.voice * voiceScore(settings)

\* Math.round(baseScore * nftMultiplier * 100) / 100, in hundredths:
\* Math.round rounds half up.
TotalScore(eff, settings, verifiedUser) ==
  LET nftMultiplier == IF settings.present
                         THEN getNftMultiplier(verifiedUser, settings)
                         ELSE 100
  IN (BaseScore(eff, settings) * nftMultiplier + 50) \div 100

\* daily_x = CASE WHEN daily_reset_date = ? THEN daily_x + ? ELSE ? END
DailyCase(row, today, old, eff) ==
  IF row.daily_reset_date = today THEN old + eff ELSE eff

\* INSERT ... ON CONFLICT(guild_id, user_id) DO UPDATE SET ...
UpsertRow(row, eff, totalScore, today) ==
  IF ~row.exists
    THEN [exists |-> TRUE,
          message_count |-> eff.messages, reply_count |-> eff.replies,
          reaction_count |-> eff.reactions, voice_minutes |-> eff.voice,
          total_score |-> totalScore, week_score |-> totalScore,
          daily_messages |-> eff.messages, daily_replies |-> eff.replies,
          daily_reactions |-> eff.reactions, daily_voice |-> eff.voice,
          daily_reset_date |-> today]
    ELSE [exists |-> TRUE,
          message_count |-> row.message_count + eff.messages,
          reply_count |-> row.reply_count + eff.replies,
          reaction_count |-> row.reaction_count + eff.reactions,
          voice_minutes |-> row.voice_minutes + eff.voice,
          total_score |-> row.total_score + totalScore,
          week_score |-> row.week_score + totalScore,
          daily_messages |-> DailyCase(row, today, row.daily_messages, eff.messages),
          daily_replies |-> DailyCase(row, today, row.daily_replies, eff.replies),
          daily_reactions |-> DailyCase(row, today, row.daily_reactions, eff.reactions),
          daily_voice |-> DailyCase(row, today, row.daily_voice, eff.voice),
          daily_reset_date |-> today]

\* ------------------------------------------------------------------ securityLogger.js
PENALTY_THRESHOLDS_WARNING == 1
PENALTY_THRESHOLDS_REDUCED == 2
PENALTY_THRESHOLDS_BLOCKED == 3
\* trackUserBehavior keeps only the last 100 action records
MAX_ACTION_RECORDS == 100
\* detectSuspiciousBehavior thresholds
VERIFY_ATTEMPTS_LIMIT == 20
COMMAND_SPAM_LIMIT == 30
\* cleanupOldLogs: MAX_AGE_MS = 7 days
MAX_AGE_DAYS == 7
MAX_AGE_MS == MAX_AGE_DAYS * DayMs

Contains(seq, x) == \E i \in 1..Len(seq) : seq[i] = x

\* arr.slice(-n)
LastN(seq, n) ==
  IF Len(seq) <= n THEN seq ELSE SubSeq(seq, Len(seq) - n + 1, Len(seq))

NULL_TRACKER ==
  [exists |-> FALSE, firstSeen |-> 0, lastSeen |-> 0, actions |-> <<>>,
   verifyAttempts |-> 0, commandCount |-> 0, messageCount |-> 0,
   flags |-> <<>>]

\* detectSuspiciousBehavior(guildId, userId, tracker)
detectSuspiciousBehavior(tracker, t) ==
  LET recentActions ==
        SelectSeq(tracker.actions, LAMBDA a : t - a.timestamp < HourMs)
      recentVerifyAttempts ==
        Len(SelectSeq(recentActions, LAMBDA a : a.action = "verify"))
      flags1 ==
        IF recentVerifyAttempts > VERIFY_ATTEMPTS_LIMIT
           /\ ~Contains(tracker.flags, "excessive_verify")
          THEN Append(tracker.flags, "excessive_verify")
          ELSE tracker.flags
      recentCommands ==
        Len(SelectSeq(recentActions,
              LAMBDA a : a.action = "command" /\ t - a.timestamp < MinuteMs))
      flags2 ==
        IF recentCommands > COMMAND_SPAM_LIMIT
           /\ ~Contains(flags1, "command_spam")
          THEN Append(flags1, "command_spam")
          ELSE flags1
  IN [tracker EXCEPT !.flags = flags2]

\* trackUserBehavior(guildId, userId, action, metadata) on one map entry
trackUserBehavior(tracker, action, t) ==
  LET t0 == IF tracker.exists THEN tracker
            ELSE [NULL_TRACKER EXCEPT !.exists = TRUE,
                                      !.firstSeen = t, !.lastSeen = t]
      t1 == [t0 EXCEPT
               !.lastSeen = t,
               !.actions = LastN(Append(@, [action |-> action, timestamp |-> t]),
                                 MAX_ACTION_RECORDS),
               !.verifyAttempts = IF action = "verify" THEN @ + 1 ELSE @,
               !.commandCount = IF action = "command" THEN @ + 1 ELSE @,
               !.messageCount = IF action = "message" THEN @ + 1 ELSE @]
  IN detectSuspiciousBehavior(t1, t)

\* (a flagUser that pushes the reason whether or not it is recorded)
flagUserAgain(tracker, reason, t) ==
  LET t1 == IF tracker.exists THEN tracker
            ELSE trackUserBehavior(tracker, "flag", t)
  IN [t1 EXCEPT !.flags = Append(@, reason)]

\* flagUser(guildId, userId, reason) on one map entry
flagUser(tracker, reason, t) ==
  LET t1 == IF tracker.exists THEN tracker
            ELSE trackUserBehavior(tracker, "flag", t)
  IN IF Contains(t1.flags, reason) THEN t1
     ELSE [t1 EXCEPT !.flags = Append(@, reason)]

\* getUserFlags(guildId, userId)
getUserFlags(guildId, userId) ==
  LET tracker == userBehaviorTracker[<<guildId, userId>>]
  IN IF tracker.exists THEN tracker.flags ELSE <<>>

\* (thresholds compared with > instead of >=)
PenaltyAboveThreshold(flagCount) ==
  IF flagCount > PENALTY_THRESHOLDS_BLOCKED THEN 0
  ELSE IF flagCount > PENALTY_THRESHOLDS_REDUCED THEN 50
  ELSE 100

\* The multiplier for a given flag count, in hundredths (1.0, 0.5, 0).
PenaltyForCount(flagCount) ==
  IF flagCount >= PENALTY_THRESHOLDS_BLOCKED THEN 0
  ELSE IF flagCount >= PENALTY_THRESHOLDS_REDUCED THEN 50
  ELSE 100

\* getPenaltyMultiplier(guildId, userId)
getPenaltyMultiplier(guildId, userId) ==
  PenaltyForCount(Len(getUserFlags(guildId, userId)))

\* isUserBlocked(guildId, userId)
isUserBlocked(guildId, userId) == getPenaltyMultiplier(guildId, userId) = 0

\* (a cleanup by age of the entry instead of by lastSeen)
CleanupByFirstSeen(tracker, t) ==
  IF tracker.exists /\ t - tracker.firstSeen > MAX_AGE_MS
    THEN NULL_TRACKER ELSE tracker

\* cleanupOldLogs: the in-memory part, one map entry
CleanupTracker(tracker, t) ==
  IF tracker.exists /\ t - tracker.lastSeen > MAX_AGE_MS
    THEN NULL_TRACKER ELSE tracker

\* ------------------------------------------------------------------ anomaly baseline
ANOMALY_MULTIPLIER == 5
BASELINE_DAYS == 7
\* "Need at least 3 days of history to detect anomalies"
BASELINE_MIN_HISTORY == 3
\* lastDate: null
NO_DATE == 0 - 1

NULL_BASELINE ==
  [exists |-> FALSE, history |-> <<>>, lastDate |-> NO_DATE, todayTotal |-> 0]

RECURSIVE SumScores(_)
SumScores(history) ==
  IF history = <<>> THEN 0 ELSE Head(history).score + SumScores(Tail(history))

\* (only the messages of the update counted)
MessagesOfUpdate(update) == update.message_count

\* const todayScore = (update.message_count || 0) + ... + (update.voice_minutes || 0)
TodayScore(update) ==
  update.message_count + update.reply_count
  + update.reaction_count + update.voice_minutes

\* (no minimum of history before the average is compared)
checkAnomalyAnyHistory(entry, update, today) ==
  LET baseline == IF entry.exists THEN entry
                  ELSE [NULL_BASELINE EXCEPT !.exists = TRUE]
      todayScore == TodayScore(update)
      pushed == IF baseline.lastDate # NO_DATE /\ baseline.todayTotal > 0
                  THEN Append(baseline.history,
                              [date |-> baseline.lastDate,
                               score |-> baseline.todayTotal])
                  ELSE baseline.history
      history == IF Len(pushed) > BASELINE_DAYS THEN Tail(pushed) ELSE pushed
      b1 == IF baseline.lastDate = today
              THEN [baseline EXCEPT !.todayTotal = @ + todayScore]
              ELSE [baseline EXCEPT !.history = history, !.lastDate = today,
                                    !.todayTotal = todayScore]
      n == Len(b1.history)
      spike == /\ SumScores(b1.history) > 0
               /\ b1.todayTotal * n > SumScores(b1.history) * ANOMALY_MULTIPLIER
  IN [baseline |-> b1, spike |-> spike]

\* checkActivityAnomaly(guildId, userId, update) on one map entry:
\* the new entry, and whether flagUser(..., 'activity_spike') is called.
checkActivityAnomaly(entry, update, today) ==
  LET baseline == IF entry.exists THEN entry
                  ELSE [NULL_BASELINE EXCEPT !.exists = TRUE]
      todayScore == TodayScore(update)
      pushed == IF baseline.lastDate # NO_DATE /\ baseline.todayTotal > 0
                  THEN Append(baseline.history,
                              [date |-> baseline.lastDate,
                               score |-> baseline.todayTotal])
                  ELSE baseline.history
      history == IF Len(pushed) > BASELINE_DAYS THEN Tail(pushed) ELSE pushed
      b1 == IF baseline.lastDate = today
              THEN [baseline EXCEPT !.todayTotal = @ + todayScore]
              ELSE [baseline EXCEPT !.history = history, !.lastDate = today,
                                    !.todayTotal = todayScore]
      n == Len(b1.history)
      \* avgScore > 0 /\ todayTotal > avgScore * 5, with avgScore = sum / n
      spike == /\ n >= BASELINE_MIN_HISTORY
               /\ SumScores(b1.history) > 0
               /\ b1.todayTotal * n > SumScores(b1.history) * ANOMALY_MULTIPLIER
  IN [baseline |-> b1, spike |-> spike]

\* processBatch: for (const update of updates) checkActivityAnomaly(...)
RECURSIVE AnomalyFold(_, _, _, _, _, _)
AnomalyFold(updates, i, base, trk, today, t) ==
  IF i > Len(updates) THEN [base |-> base, trk |-> trk]
  ELSE LET update == updates[i]
           key == <<update.guildId, update.userId>>
           r == checkActivityAnomaly(base[key], update, today)
           trk2 == IF r.spike
                     THEN [trk EXCEPT ![key] = flagUser(@, "activity_spike", t)]
                     ELSE trk
       IN AnomalyFold(updates, i + 1, [base EXCEPT ![key] = r.baseline],
                      trk2, today, t)

\* ------------------------------------------------------------------ aggregation
RECURSIVE DedupFrom(_, _)
DedupFrom(s, acc) ==
  IF s = <<>> THEN acc
  ELSE DedupFrom(Tail(s),
                 IF Contains(acc, Head(s)) THEN acc ELSE Append(acc, Head(s)))

RECURSIVE SumValues(_)
SumValues(events) ==
  IF events = <<>> THEN 0 ELSE Head(events).value + SumValues(Tail(events))

\* the sum a switch (event.type) branch accumulates for one key
SumOf(events, guildId, userId, type) ==
  SumValues(SelectSeq(events,
    LAMBDA e : e.guildId = guildId /\ e.userId = userId /\ e.type = type))

\* the keys of `aggregated`, in insertion order
AggregatedKeys(events) ==
  DedupFrom([i \in 1..Len(events) |-> <<events[i].guildId, events[i].userId>>],
            <<>>)

\* processBatch: Object.values(aggregated)
Aggregated(events) ==
  LET keys == AggregatedKeys(events)
  IN [i \in 1..Len(keys) |->
        [guildId |-> keys[i][1], userId |-> keys[i][2],
         message_count |-> SumOf(events, keys[i][1], keys[i][2], "message"),
         reply_count |-> SumOf(events, keys[i][1], keys[i][2], "reply"),
         reaction_count |-> SumOf(events, keys[i][1], keys[i][2], "reaction"),
         voice_minutes |-> SumOf(events, keys[i][1], keys[i][2], "voice")]]

\* processBatch: Object.entries(guildGroups), keys in insertion order
GuildOrder(events) ==
  DedupFrom([i \in 1..Len(events) |-> events[i].guildId], <<>>)

\* guildGroups[guildId]
GuildGroup(events, guildId) ==
  SelectSeq(Aggregated(events), LAMBDA a : a.guildId = guildId)

\* ------------------------------------------------------------------ event queue
\* trackActivity(guildId, userId, type, value): the queued event.  The id
\* stands for the identity of the event object.
NewEvent(guildId, userId, type, value, t, id) ==
  [guildId |-> guildId, userId |-> userId, type |-> type, value |-> value,
   timestamp |-> t, id |-> id]

\* activityQueue.push(event)
trackActivity(queue, event) == Append(queue, event)

\* const events = activityQueue.splice(0): the removed elements ...
SpliceTaken(queue) == queue

\* ... and what is left in activityQueue (a slice(0) would leave the queue)
SliceRemainder(queue) == queue
SpliceRemainder(queue) == <<>>

\* catch: activityQueue.push(...events) (a handler that only logs)
RequeueNothing(queue, events) == queue
Requeue(queue, events) == queue \o events

EventIds(events) == {events[i].id : i \in 1..Len(events)}

\* ------------------------------------------------------------------ processBatch
\* One invocation of processBatch.  pc is the await it is suspended at:
\*   "load"   db.getActivitySettings(events[idx].guildId)
\*   "read"   getDailyActivity: SELECT of the current update's row
\*   "reset"  getDailyActivity: UPDATE resetting a stale row
\*   "write"  getNftMultiplier's read and the INSERT ... ON CONFLICT
\* gi, ui index the current guild group and the update in it; btoday is
\* batchUpdateActivity's `today`, gtoday is getDailyActivity's `today`.
IdleFlush ==
  [pc |-> "idle", events |-> <<>>, idx |-> 0,
   guildSettings |-> [g \in Guilds |-> NULL_SETTINGS],
   gi |-> 0, ui |-> 0, btoday |-> 0, gtoday |-> 0,
   dailyData |-> FreshDaily(0), sawRow |-> FALSE, wasReset |-> FALSE]

CurGuild(fl) == GuildOrder(fl.events)[fl.gi]
CurUpdates(fl) == GuildGroup(fl.events, CurGuild(fl))
CurUpdate(fl) == CurUpdates(fl)[fl.ui]
CurKey(fl) == <<CurUpdate(fl).guildId, CurUpdate(fl).userId>>
CurSettings(fl) == fl.guildSettings[CurGuild(fl)]

\* if (!guildSettings[event.guildId]): the next event whose guild has no
\* cached settings object, from index `from` on; 0 when the loop ends.
NextLoadIdx(events, cache, from) ==
  LET need == {j \in from..Len(events) : ~cache[events[j].guildId].present}
  IN IF need = {} THEN 0 ELSE CHOOSE j \in need : \A k \in need : j <= k

\* Entering db.batchUpdateActivity(updates, settings) for guild group gi and
\* calling getDailyActivity for its first update.
EnterGuild(fl, gi) ==
  [fl EXCEPT !.pc = "read", !.gi = gi, !.ui = 1, !.btoday = Today,
             !.gtoday = Today, !.sawRow = FALSE, !.wasReset = FALSE]

\* The synchronous continuation once the current update is written or
\* skipped: the next update of the group; or, when batchUpdateActivity
\* returns, the anomaly checks of the group and the next group; or the end.
Advance(f, fl) ==
  IF fl.ui < Len(CurUpdates(fl))
    THEN /\ flush' = [flush EXCEPT ![f] =
                        [fl EXCEPT !.pc = "read", !.ui = @ + 1,
                                   !.gtoday = Today, !.sawRow = FALSE,
                                   !.wasReset = FALSE]]
         /\ UNCHANGED <<activityBaseline, userBehaviorTracker>>
    ELSE LET r == AnomalyFold(CurUpdates(fl), 1, activityBaseline,
                              userBehaviorTracker, Today, now)
         IN /\ activityBaseline' = r.base
            /\ userBehaviorTracker' = r.trk
            /\ flush' = [flush EXCEPT ![f] =
                 IF fl.gi < Len(GuildOrder(fl.events))
                   THEN EnterGuild(fl, fl.gi + 1)
                   ELSE IdleFlush]

\* getDailyActivity returned dailyData: clamp, then skip or issue the write.
AfterRead(f, fl) ==
  IF AllZero(EffectiveCounts(CurUpdate(fl), fl.dailyData, CurSettings(fl)))
    THEN Advance(f, fl)
    ELSE /\ flush' = [flush EXCEPT ![f] = [fl EXCEPT !.pc = "write"]]
         /\ UNCHANGED <<activityBaseline, userBehaviorTracker>>

\* if (events.length === 0) return; (a run that goes on regardless)
NeverNothingTaken(events) == FALSE
NothingTaken(events) == events = <<>>

\* The invocations are interchangeable: a new one takes the first idle slot.
FirstIdle(f) == f = "f2" => flush["f1"].pc # "idle"

\* setInterval(processBatch, ...): splice the queue; return when it is empty;
\* otherwise run up to the first await (the first event's settings).
ProcessBatch(f) ==
  /\ flush[f].pc = "idle"
  /\ FirstIdle(f)
  /\ lastFlushEmpty' = (activityQueue = <<>>)
  /\ IF NothingTaken(SpliceTaken(activityQueue))
       THEN UNCHANGED <<now, activity_settings, verified_users, rows,
                        activityQueue, flush, activityBaseline,
                        userBehaviorTracker, handlerVars, nextId, aggCount,
                        failures, raced>>
       ELSE /\ flush' = [flush EXCEPT ![f] =
                           [IdleFlush EXCEPT !.pc = "load", !.idx = 1,
                              !.events = SpliceTaken(activityQueue)]]
            /\ activityQueue' = SpliceRemainder(activityQueue)
            /\ UNCHANGED <<now, activity_settings, verified_users, rows,
                           activityBaseline, userBehaviorTracker,
                           handlerVars, nextId, aggCount, failures, raced>>
  /\ UNCHANGED voiceVars
  /\ UNCHANGED <<lastReturn, lastContent>>

\* await db.getActivitySettings(...) resolves: cache it, go on aggregating to
\* the next event that needs a load; after the last event enter the try block.
LoadSettings(f) ==
  /\ flush[f].pc = "load"
  /\ LET fl == flush[f]
         g == fl.events[fl.idx].guildId
         cache == [fl.guildSettings EXCEPT ![g] = activity_settings[g]]
         j == NextLoadIdx(fl.events, cache, fl.idx + 1)
         fl1 == [fl EXCEPT !.guildSettings = cache]
     IN IF j # 0
          THEN /\ flush' = [flush EXCEPT ![f] = [fl1 EXCEPT !.idx = j]]
               /\ UNCHANGED aggCount
          ELSE /\ flush' = [flush EXCEPT ![f] = EnterGuild(fl1, 1)]
               /\ aggCount' = [i \in DOMAIN aggCount |->
                                 IF i \in EventIds(fl.events)
                                   THEN aggCount[i] + 1 ELSE aggCount[i]]
  /\ UNCHANGED <<now, activity_settings, verified_users, rows, activityQueue,
                 activityBaseline, userBehaviorTracker, handlerVars, nextId,
                 failures, raced>>
  /\ UNCHANGED voiceVars
  /\ UNCHANGED logVars

\* await db.getActivitySettings(...) rejects: the await is outside the try
\* block, so processBatch rejects and its local `events` is gone.
LoadSettingsFails(f) ==
  /\ flush[f].pc = "load"
  /\ failures < MaxFailures
  /\ failures' = failures + 1
  /\ flush' = [flush EXCEPT ![f] = IdleFlush]
  /\ UNCHANGED <<now, activity_settings, verified_users, rows, activityQueue,
                 activityBaseline, userBehaviorTracker, handlerVars, nextId,
                 aggCount, raced>>
  /\ UNCHANGED voiceVars
  /\ UNCHANGED logVars

\* getDailyActivity: the SELECT resolves.
ReadDaily(f) ==
  /\ flush[f].pc = "read"
  /\ LET fl == flush[f]
         row == rows[CurKey(fl)]
     IN IF ~row.exists
          THEN AfterRead(f, [fl EXCEPT !.dailyData = FreshDaily(fl.gtoday),
                                       !.sawRow = FALSE])
          ELSE IF row.daily_reset_date # fl.gtoday
            THEN /\ flush' = [flush EXCEPT ![f] =
                                [fl EXCEPT !.pc = "reset", !.sawRow = TRUE]]
                 /\ UNCHANGED <<activityBaseline, userBehaviorTracker>>
            ELSE AfterRead(f, [fl EXCEPT !.dailyData = DailyOf(row),
                                         !.sawRow = TRUE])
  /\ UNCHANGED <<now, activity_settings, verified_users, rows, activityQueue,
                 handlerVars, nextId, aggCount, failures, raced>>
  /\ UNCHANGED voiceVars
  /\ UNCHANGED logVars

\* getDailyActivity: the resetting UPDATE resolves.
ResetDaily(f) ==
  /\ flush[f].pc = "reset"
  /\ LET fl == flush[f]
         key == CurKey(fl)
     IN /\ rows' = [rows EXCEPT ![key] = ResetRow(@, fl.gtoday)]
        /\ AfterRead(f, [fl EXCEPT !.dailyData = FreshDaily(fl.gtoday),
                                   !.wasReset = TRUE])
  /\ UNCHANGED <<now, activity_settings, verified_users, activityQueue,
                 handlerVars, nextId, aggCount, failures, raced>>
  /\ UNCHANGED voiceVars
  /\ UNCHANGED logVars

\* The row's daily state is no longer what getDailyActivity returned.
OutOfDate(fl, row) ==
  \/ row.exists # fl.sawRow
  \/ row.exists /\ DailyOf(row) # fl.dailyData

\* batchUpdateActivity: the INSERT ... ON CONFLICT resolves.
WriteActivity(f) ==
  /\ flush[f].pc = "write"
  /\ LET fl == flush[f]
         key == CurKey(fl)
         row == rows[key]
         eff == EffectiveCounts(CurUpdate(fl), fl.dailyData, CurSettings(fl))
         totalScore == TotalScore(eff, CurSettings(fl), verified_users[key])
     IN /\ rows' = [rows EXCEPT ![key] = UpsertRow(row, eff, totalScore, fl.btoday)]
        /\ raced' = IF OutOfDate(fl, row) THEN raced \cup {key} ELSE raced
        /\ Advance(f, fl)
  /\ UNCHANGED <<now, activity_settings, verified_users, activityQueue,
                 handlerVars, nextId, aggCount, failures>>
  /\ UNCHANGED voiceVars
  /\ UNCHANGED logVars

\* A store access inside the try block rejects: the catch block puts the
\* drained events back.
BatchWriteFails(f) ==
  /\ flush[f].pc \in {"read", "reset", "write"}
  /\ failures < MaxFailures
  /\ failures' = failures + 1
  /\ activityQueue' = Requeue(activityQueue, flush[f].events)
  /\ flush' = [flush EXCEPT ![f] = IdleFlush]
  /\ UNCHANGED <<now, activity_settings, verified_users, rows,
                 activityBaseline, userBehaviorTracker, handlerVars, nextId,
                 aggCount, raced>>
  /\ UNCHANGED voiceVars
  /\ UNCHANGED logVars

\* ------------------------------------------------------------------ message text
\* A message's content is the sequence of its UTF-16 code units.
MESSAGE_HISTORY_SIZE == 10
\* SIMILARITY_THRESHOLD = 0.7, REACTION_UNIQUE_RATIO = 0.3, as tenths
SIMILARITY_THRESHOLD_TENTHS == 7
REACTION_UNIQUE_RATIO_TENTHS == 3
\* calculateSimilarity: Levenshtein below 50 characters
SHORT_MESSAGE_LENGTH == 50
\* config.activity.minMessageLength, config.activity.cooldownMs
minMessageLength == 3
cooldownMs == 10000
\* shouldScoreMessage: 50 messages per 60000 ms
SPAM_MAX_PER_WINDOW == 50
SPAM_WINDOW_MS == 60000

InRange(c, lo, hi) == lo <= c /\ c <= hi
IsUpper(c) == InRange(c, 65, 90)
IsLower(c) == InRange(c, 97, 122)
IsLetter(c) == IsUpper(c) \/ IsLower(c)
IsDigit(c) == InRange(c, 48, 57)
\* \w
IsWord(c) == IsLetter(c) \/ IsDigit(c) \/ c = 95
\* \s, which is also what trim() strips
IsSpace(c) ==
  \/ c \in {9, 10, 11, 12, 13, 32, 160, 5760, 8232, 8233, 8239, 8287, 12288, 65279}
  \/ InRange(c, 8192, 8202)
\* . (anything but a line terminator)
IsDot(c) == c \notin {10, 13, 8232, 8233}
\* [\u4e00-\u9fff\u3040-\u309f\u30a0-\u30ff\uac00-\ud7af]
IsCJK(c) ==
  \/ InRange(c, 19968, 40959)
  \/ InRange(c, 12352, 12447)
  \/ InRange(c, 12448, 12543)
  \/ InRange(c, 44032, 55215)
IsVowel(c) == c \in {97, 101, 105, 111, 117, 65, 69, 73, 79, 85}

\* toLowerCase() on the ASCII letters
LowerChar(c) == IF IsUpper(c) THEN c + 32 ELSE c
toLowerCase(str) == [i \in 1..Len(str) |-> LowerChar(str[i])]

RECURSIVE TrimStart(_)
TrimStart(str) ==
  IF str # <<>> /\ IsSpace(Head(str)) THEN TrimStart(Tail(str)) ELSE str

RECURSIVE TrimEnd(_)
TrimEnd(str) ==
  IF str # <<>> /\ IsSpace(str[Len(str)])
    THEN TrimEnd(SubSeq(str, 1, Len(str) - 1)) ELSE str

trim(str) == TrimEnd(TrimStart(str))

Min3(a, b, c) == Min(a, Min(b, c))

\* dp[i][0..n] from dp[i - 1][0..n]: cur holds dp[i][0..j - 1] so far, and
\* position j + 1 of a row holds dp[.][j]
RECURSIVE LevCols(_, _, _, _)
LevCols(ai, b, prev, cur) ==
  IF Len(cur) > Len(b) THEN cur
  ELSE LET j == Len(cur)
       IN LevCols(ai, b, prev,
                  Append(cur, IF ai = b[j] THEN prev[j]
                              ELSE 1 + Min3(prev[j + 1], cur[j], prev[j])))

\* the rows one after another, each completed before the next is begun
RECURSIVE LevRows(_, _, _, _)
LevRows(a, b, i, prev) ==
  IF i > Len(a) THEN prev[Len(b) + 1]
  ELSE LET cur == LevCols(a[i], b, prev, <<i>>)
       IN IF Len(cur) > Len(b) THEN LevRows(a, b, i + 1, cur) ELSE 0

\* levenshteinDistance(a, b)
levenshteinDistance(a, b) ==
  IF Len(a) = 0 THEN Len(b)
  ELSE IF Len(b) = 0 THEN Len(a)
  ELSE LevRows(a, b, 1, [j \in 1..(Len(b) + 1) |-> j - 1])

\* str.split(/\s+/): the maximal runs of non-space characters; a string that
\* starts or ends with white space also yields an empty first or last piece.
RECURSIVE SplitFrom(_, _, _)
SplitFrom(str, cur, inGap) ==
  IF str = <<>> THEN <<cur>>
  ELSE IF IsSpace(Head(str))
    THEN IF inGap THEN SplitFrom(Tail(str), cur, TRUE)
         ELSE <<cur>> \o SplitFrom(Tail(str), <<>>, TRUE)
    ELSE SplitFrom(Tail(str), Append(cur, Head(str)), FALSE)

split(str) == SplitFrom(str, <<>>, FALSE)

SeqToSet(seq) == {seq[i] : i \in 1..Len(seq)}

\* calculateSimilarity(str1, str2) >= SIMILARITY_THRESHOLD, the quotient
\* compared as a fraction
IsSimilar(str1, str2) ==
  IF str1 = <<>> \/ str2 = <<>> THEN FALSE
  ELSE LET s1 == trim(toLowerCase(str1))
           s2 == trim(toLowerCase(str2))
       IN IF Len(s1) < SHORT_MESSAGE_LENGTH \/ Len(s2) < SHORT_MESSAGE_LENGTH
            THEN LET maxLen == Max(Len(s1), Len(s2))
                 IN IF maxLen = 0 THEN TRUE
                    ELSE (maxLen - levenshteinDistance(s1, s2)) * 10
                           >= SIMILARITY_THRESHOLD_TENTHS * maxLen
            ELSE LET words1 == SeqToSet(split(s1))
                     words2 == SeqToSet(split(s2))
                     inter == Cardinality(words1 \cap words2)
                     union == Cardinality(words1 \cup words2)
                 IN union > 0 /\ inter * 10 >= SIMILARITY_THRESHOLD_TENTHS * union

\* (a check against the latest remembered message only)
isRepeatOfLatest(history, content) ==
  /\ Len(content) >= 5
  /\ history # <<>>
  /\ IsSimilar(content, history[Len(history)])

\* isDuplicateMessage(userId, content): the verdict ...
isDuplicateMessage(history, content) ==
  /\ Len(content) >= 5
  /\ \E i \in 1..Len(history) : IsSimilar(content, history[i])

\* (a push that never evicts)
RememberAll(history, content) == Append(history, content)

\* history.push(content), keeping the last MESSAGE_HISTORY_SIZE
Remember(history, content) ==
  LET pushed == Append(history, content)
  IN IF Len(pushed) > MESSAGE_HISTORY_SIZE THEN Tail(pushed) ELSE pushed

\* ... and the history it leaves when it returns false
HistoryAfter(history, content) ==
  IF Len(content) < 5 THEN history ELSE Remember(history, content)

HasPrefix(text, pre) == Len(text) >= Len(pre) /\ SubSeq(text, 1, Len(pre)) = pre

\* the length of the run of \w, and of \d, characters from position i on
RECURSIVE WordRun(_, _)
WordRun(text, i) ==
  IF i <= Len(text) /\ IsWord(text[i]) THEN 1 + WordRun(text, i + 1) ELSE 0

RECURSIVE DigitRun(_, _)
DigitRun(text, i) ==
  IF i <= Len(text) /\ IsDigit(text[i]) THEN 1 + DigitRun(text, i + 1) ELSE 0

\* /^<:\w+:\d+>/
IsEmojiStart(text) ==
  /\ HasPrefix(text, <<60, 58>>)
  /\ \E w \in 1..WordRun(text, 3) :
       /\ 3 + w <= Len(text) /\ text[3 + w] = 58
       /\ \E d \in 1..DigitRun(text, 4 + w) :
            4 + w + d <= Len(text) /\ text[4 + w + d] = 62

\* /^(<[@#!&]|https?:\/\/|<:\w+:\d+>)/
IsAllowedStart(text) ==
  \/ Len(text) >= 2 /\ text[1] = 60 /\ text[2] \in {64, 35, 33, 38}
  \/ HasPrefix(text, <<104, 116, 116, 112, 58, 47, 47>>)
  \/ HasPrefix(text, <<104, 116, 116, 112, 115, 58, 47, 47>>)
  \/ IsEmojiStart(text)

\* /(.)\1{7,}/
HasLongerRun(text) ==
  \E i \in 1..(Len(text) - 7) :
    IsDot(text[i]) /\ \A k \in 1..7 : text[i + k] = text[i]

\* /(.)\1{6,}/
HasLongRun(text) ==
  \E i \in 1..(Len(text) - 6) :
    IsDot(text[i]) /\ \A k \in 1..6 : text[i + k] = text[i]

\* w.replace(/[^a-zA-Z]/g, '').toLowerCase()
LettersOf(w) == toLowerCase(SelectSeq(w, IsLetter))

IsMash(w) ==
  LET clean == LettersOf(w)
  IN Len(clean) >= 4 /\ \A i \in 1..Len(clean) : ~IsVowel(clean[i])

IsPlain(c) == ~IsSpace(c) /\ ~IsCJK(c)
IsSpecial(c) == ~IsLetter(c) /\ ~IsDigit(c)

\* pat.repeat(...).slice(0, text.length) === text
RepeatsPattern(text, patLen) ==
  \A i \in 1..Len(text) : text[i] = text[((i - 1) % patLen) + 1]

\* isGibberish(content)
isGibberish(content) ==
  IF Len(content) < 5 THEN FALSE
  ELSE LET text == trim(content)
           words == split(text)
           mashCount == Len(SelectSeq(words, IsMash))
           alphaNum == SelectSeq(text, IsPlain)
           specialCount == Len(SelectSeq(alphaNum, IsSpecial))
       IN IF IsAllowedStart(text) THEN FALSE
          ELSE \/ HasLongRun(text)
               \/ /\ \A i \in 1..Len(text) : ~IsCJK(text[i])
                  /\ mashCount * 10 > 7 * Len(words)
                  /\ Len(words) >= 2
               \/ /\ Len(alphaNum) > 5
                  /\ specialCount * 10 > 6 * Len(alphaNum)
               \/ /\ Len(text) >= 10
                  /\ \E patLen \in 1..3 : RepeatsPattern(text, patLen)

\* ------------------------------------------------------------------ quality filter
\* map.get(key) of a key that is not there
NO_TIME == 0 - 1
NULL_SPAM == [exists |-> FALSE, count |-> 0, windowStart |-> 0]

\* content.length < config.activity.minMessageLength (a check one shorter)
TooShortByOne(content) == Len(content) < minMessageLength - 1
TooShort(content) == Len(content) < minMessageLength

\* lastTime && now - lastTime < config.activity.cooldownMs (no cooldown)
NoCooldown(lastTime, t) == FALSE
InCooldown(lastTime, t) == lastTime # NO_TIME /\ t - lastTime < cooldownMs

\* spamData && now - spamData.windowStart < 60000 (a window one
\* millisecond longer)
InSpamWindowLate(spamData, t) ==
  spamData.exists /\ t - spamData.windowStart <= SPAM_WINDOW_MS
InSpamWindow(spamData, t) ==
  spamData.exists /\ t - spamData.windowStart < SPAM_WINDOW_MS

\* shouldScoreMessage(userId, content) at time t: the verdict and the maps'
\* entries for userId as it leaves them (`pushed` once isDuplicateMessage
\* has returned false).  Date.now() is never 0, so `lastTime &&` tests
\* whether the entry is there.
\* (a variant with one cooldown clock for all users)
shouldScoreSharedClock(userId, content, t) ==
  LET history == userMessageHistory[userId]
      times == {recentMessages[u] : u \in Users}
      lastTime == CHOOSE x \in times : \A y \in times : y <= x
      spamData == spamTracker[userId]
      same == [ok |-> FALSE, history |-> history, recent |-> recentMessages[userId],
               spam |-> spamData, ret |-> "length"]
      pushed == [same EXCEPT !.history = HistoryAfter(history, content)]
      inWindow == InSpamWindow(spamData, t)
  IN IF TooShort(content) THEN same
     ELSE IF isGibberish(content) THEN [same EXCEPT !.ret = "gibberish"]
     ELSE IF isDuplicateMessage(history, content)
       THEN [same EXCEPT !.ret = "duplicate"]
     ELSE IF InCooldown(lastTime, t) THEN [pushed EXCEPT !.ret = "cooldown"]
     ELSE IF inWindow /\ spamData.count >= SPAM_MAX_PER_WINDOW
       THEN [pushed EXCEPT !.ret = "spam"]
     ELSE [pushed EXCEPT
             !.ok = TRUE,
             !.ret = "scored",
             !.recent = t,
             !.spam = IF inWindow
                        THEN [spamData EXCEPT !.count = @ + 1]
                        ELSE [exists |-> TRUE, count |-> 1, windowStart |-> t]]
shouldScoreMessage(userId, content, t) ==
  LET history == userMessageHistory[userId]
      lastTime == recentMessages[userId]
      spamData == spamTracker[userId]
      same == [ok |-> FALSE, history |-> history, recent |-> lastTime,
               spam |-> spamData, ret |-> "length"]
      pushed == [same EXCEPT !.history = HistoryAfter(history, content)]
      inWindow == InSpamWindow(spamData, t)
  IN IF TooShort(content) THEN same
     ELSE IF isGibberish(content) THEN [same EXCEPT !.ret = "gibberish"]
     ELSE IF isDuplicateMessage(history, content)
       THEN [same EXCEPT !.ret = "duplicate"]
     ELSE IF InCooldown(lastTime, t) THEN [pushed EXCEPT !.ret = "cooldown"]
     ELSE IF inWindow /\ spamData.count >= SPAM_MAX_PER_WINDOW
       THEN [pushed EXCEPT !.ret = "spam"]
     ELSE [pushed EXCEPT
             !.ok = TRUE,
             !.ret = "scored",
             !.recent = t,
             !.spam = IF inWindow
                        THEN [spamData EXCEPT !.count = @ + 1]
                        ELSE [exists |-> TRUE, count |-> 1, windowStart |-> t]]

\* ------------------------------------------------------------------ reaction guard
REACTION_WINDOW_MS == 300000
REACTION_MAX_PER_WINDOW == 30
\* rData.count > 10
REACTION_RATIO_MIN_COUNT == 10

NULL_REACTIONS ==
  [exists |-> FALSE, count |-> 0, windowStart |-> 0, uniqueMessages |-> {}]

\* handleReactionAdd: the window's entry once this reaction is counted
CountReaction(rData, messageId, t) ==
  LET cur == IF ~rData.exists \/ t - rData.windowStart > REACTION_WINDOW_MS
               THEN [exists |-> TRUE, count |-> 0, windowStart |-> t,
                     uniqueMessages |-> {}]
               ELSE rData
  IN [cur EXCEPT !.count = @ + 1, !.uniqueMessages = @ \cup {messageId}]

\* rData.count > REACTION_MAX_PER_WINDOW (a guard that lets one more through)
OverWindowLate(rData) == rData.count > REACTION_MAX_PER_WINDOW + 1
OverWindow(rData) == rData.count > REACTION_MAX_PER_WINDOW

\* (a ratio check that starts one reaction later)
IsFarmingLate(rData) ==
  /\ rData.count > REACTION_RATIO_MIN_COUNT + 1
  /\ Cardinality(rData.uniqueMessages) * 10
       < REACTION_UNIQUE_RATIO_TENTHS * rData.count

\* rData.count > 10 && rData.uniqueMessages.size / rData.count < REACTION_UNIQUE_RATIO
IsFarming(rData) ==
  /\ rData.count > REACTION_RATIO_MIN_COUNT
  /\ Cardinality(rData.uniqueMessages) * 10
       < REACTION_UNIQUE_RATIO_TENTHS * rData.count

\* ------------------------------------------------------------------ gateway handlers
\* config.activity.enabled: ACTIVITY_ENABLED is not 'false'
ACTIVITY_ENABLED == TRUE

\* getActivitySettingsIfEnabled(guildId), when its read resolves
getActivitySettingsIfEnabled(guildId) ==
  LET settings == activity_settings[guildId]
  IN IF ~ACTIVITY_ENABLED THEN NULL_SETTINGS
     ELSE IF ~settings.present \/ settings.enabled = 0 THEN NULL_SETTINGS
     ELSE settings

\* isChannelTracked(channelId, settings)
isChannelTracked(channelId, settings) ==
  ~settings.tracking_channels.set
  \/ channelId \in settings.tracking_channels.channels

\* A handler suspended at an await.  pc is "settings" (the settings read of
\* getActivitySettingsIfEnabled) or "fetch" (the fetch of the replied message).
\* reference is "none", or who wrote the replied message: "other", "self", or
\* "gone" when the fetch fails.
Handler(kind, guildId, userId, channelId, content, reference, messageId, authorId) ==
  [kind |-> kind, pc |-> "settings", guildId |-> guildId, userId |-> userId,
   channelId |-> channelId, content |-> content, reference |-> reference,
   messageId |-> messageId, authorId |-> authorId]

RemoveAt(seq, i) == SubSeq(seq, 1, i - 1) \o SubSeq(seq, i + 1, Len(seq))

\* The gate of the messageCreate and messageReactionAdd listeners (a listener
\* without the check lets everybody through).
NobodyBlocked(guildId, userId) == FALSE
BlockedAtGate(guildId, userId) == isUserBlocked(guildId, userId)

\* trackActivity called from a handler: the queue, and the history of ids
Track(guildId, userId, type, value) ==
  /\ activityQueue' = trackActivity(activityQueue,
                        NewEvent(guildId, userId, type, value, now, nextId + 1))
  /\ nextId' = nextId + 1
  /\ aggCount' = Append(aggCount, 0)

\* client.on('messageCreate') for a member's message in a guild: the gate,
\* then handleMessage up to its first await.
MessageCreate(guildId, userId, channelId, content, reference) ==
  /\ deliveries' = deliveries + 1
  /\ gated' = IF BlockedAtGate(guildId, userId) THEN gated + 1 ELSE gated
  /\ pending' = IF BlockedAtGate(guildId, userId) THEN pending
                ELSE Append(pending, Handler("message", guildId, userId,
                                             channelId, content, reference, 0, ""))
  /\ UNCHANGED <<now, activity_settings, verified_users, rows, activityQueue,
                 flush, activityBaseline, userBehaviorTracker, reactionTracker,
                 recentMessages, spamTracker, userMessageHistory, expired,
                 nextId, aggCount, failures, raced>>
  /\ UNCHANGED voiceVars
  /\ UNCHANGED logVars

\* handleMessage once the settings are read: channel scope, the quality
\* filter, the message event; a reply goes on to fetch the replied message.
handleMessage(i) ==
  /\ i \in 1..Len(pending)
  /\ pending[i].kind = "message" /\ pending[i].pc = "settings"
  /\ LET h == pending[i]
         settings == getActivitySettingsIfEnabled(h.guildId)
         tracked == settings.present /\ isChannelTracked(h.channelId, settings)
     IN IF ~tracked
          THEN /\ pending' = RemoveAt(pending, i)
               /\ UNCHANGED <<recentMessages, spamTracker, userMessageHistory,
                              activityQueue, nextId, aggCount, lastReturn,
                              lastContent>>
          ELSE \E r \in {shouldScoreMessage(h.userId, h.content, now)} :
               /\ lastReturn' = r.ret
               /\ lastContent' = h.content
               /\ userMessageHistory' = [userMessageHistory EXCEPT ![h.userId] = r.history]
               /\ recentMessages' = [recentMessages EXCEPT ![h.userId] = r.recent]
               /\ spamTracker' = [spamTracker EXCEPT ![h.userId] = r.spam]
               /\ IF r.ok
                    THEN /\ Track(h.guildId, h.userId, "message", 1)
                         /\ pending' = IF h.reference = "none"
                                         THEN RemoveAt(pending, i)
                                         ELSE [pending EXCEPT ![i].pc = "fetch"]
                    ELSE /\ pending' = RemoveAt(pending, i)
                         /\ UNCHANGED <<activityQueue, nextId, aggCount>>
  /\ UNCHANGED <<now, activity_settings, verified_users, rows, flush,
                 activityBaseline, userBehaviorTracker, reactionTracker,
                 deliveries, expired, failures, raced, gated, lastFlushEmpty>>
  /\ UNCHANGED voiceVars

\* (any reference counted as a reply to someone else)
RepliesToAnyone(reference) == reference # "none"

\* the fetch resolved and repliedMessage.author.id !== message.author.id
RepliesToOther(reference) == reference = "other"

\* handleMessage once the replied message is fetched (or the fetch failed)
handleMessageReply(i) ==
  /\ i \in 1..Len(pending)
  /\ pending[i].kind = "message" /\ pending[i].pc = "fetch"
  /\ LET h == pending[i]
     IN IF RepliesToOther(h.reference)
          THEN Track(h.guildId, h.userId, "reply", 1)
          ELSE UNCHANGED <<activityQueue, nextId, aggCount>>
  /\ pending' = RemoveAt(pending, i)
  /\ UNCHANGED <<now, activity_settings, verified_users, rows, flush,
                 activityBaseline, userBehaviorTracker, reactionTracker,
                 recentMessages, spamTracker, userMessageHistory, deliveries,
                 expired, failures, raced, gated>>
  /\ UNCHANGED voiceVars
  /\ UNCHANGED logVars

\* handleMessageDelete called for a deleted message of a member in a guild,
\* up to its first await; reference tells whether the message was a reply.
MessageDelete(guildId, userId, reference) ==
  /\ deliveries' = deliveries + 1
  /\ pending' = Append(pending, Handler("delete", guildId, userId, "c1", <<>>,
                                        reference, 0, ""))
  /\ UNCHANGED <<now, activity_settings, verified_users, rows, activityQueue,
                 flush, activityBaseline, userBehaviorTracker, reactionTracker,
                 recentMessages, spamTracker, userMessageHistory, gated,
                 expired, nextId, aggCount, failures, raced>>
  /\ UNCHANGED voiceVars
  /\ UNCHANGED logVars

\* handleMessageDelete once the settings are read: it returns, or calls
\* decrementActivity for the message
handleMessageDelete(i) ==
  /\ i \in 1..Len(pending)
  /\ pending[i].kind = "delete" /\ pending[i].pc = "settings"
  /\ pending' = IF getActivitySettingsIfEnabled(pending[i].guildId).present
                  THEN [pending EXCEPT ![i].pc = "message"]
                  ELSE RemoveAt(pending, i)
  /\ UNCHANGED <<now, activity_settings, verified_users, rows, activityQueue,
                 flush, activityBaseline, userBehaviorTracker, reactionTracker,
                 recentMessages, spamTracker, userMessageHistory, deliveries,
                 gated, expired, nextId, aggCount, failures, raced>>
  /\ UNCHANGED voiceVars
  /\ UNCHANGED logVars

\* the store applies a decrement of handleMessageDelete: the one for the
\* message, after which a reply goes on to the one for the reply
handleMessageDeleteUpdate(i) ==
  /\ i \in 1..Len(pending)
  /\ pending[i].kind = "delete" /\ pending[i].pc \in {"message", "reply"}
  /\ LET h == pending[i]
         key == <<h.guildId, h.userId>>
     IN /\ rows' = [rows EXCEPT ![key] = decrementActivity(@, h.pc, 1)]
        /\ pending' = IF h.pc = "message" /\ h.reference # "none"
                        THEN [pending EXCEPT ![i].pc = "reply"]
                        ELSE RemoveAt(pending, i)
  /\ UNCHANGED <<now, activity_settings, verified_users, activityQueue,
                 flush, activityBaseline, userBehaviorTracker, reactionTracker,
                 recentMessages, spamTracker, userMessageHistory, deliveries,
                 gated, expired, nextId, aggCount, failures, raced>>
  /\ UNCHANGED voiceVars
  /\ UNCHANGED logVars

\* client.on('messageReactionAdd') for a member's reaction in a guild: the
\* gate, then handleReactionAdd up to its await.
MessageReactionAdd(guildId, userId, channelId, messageId, authorId) ==
  /\ deliveries' = deliveries + 1
  /\ gated' = IF BlockedAtGate(guildId, userId) THEN gated + 1 ELSE gated
  /\ pending' = IF BlockedAtGate(guildId, userId) THEN pending
                ELSE Append(pending, Handler("reaction", guildId, userId,
                                             channelId, <<>>, "none",
                                             messageId, authorId))
  /\ UNCHANGED <<now, activity_settings, verified_users, rows, activityQueue,
                 flush, activityBaseline, userBehaviorTracker, reactionTracker,
                 recentMessages, spamTracker, userMessageHistory, expired,
                 nextId, aggCount, failures, raced>>
  /\ UNCHANGED voiceVars
  /\ UNCHANGED logVars

\* reaction.message.author?.id === user.id (a handler without the check
\* takes no message for the actor's own)
NeverOwnMessage(h) == FALSE
IsOwnMessage(h) == h.authorId = h.userId

\* handleReactionAdd once the settings are read
handleReactionAdd(i) ==
  /\ i \in 1..Len(pending)
  /\ pending[i].kind = "reaction" /\ pending[i].pc = "settings"
  /\ LET h == pending[i]
         key == <<h.guildId, h.userId>>
         settings == getActivitySettingsIfEnabled(h.guildId)
         tracked == settings.present /\ isChannelTracked(h.channelId, settings)
         rData == CountReaction(reactionTracker[key], h.messageId, now)
     IN IF ~tracked \/ IsOwnMessage(h)
          THEN UNCHANGED <<reactionTracker, userBehaviorTracker, activityQueue,
                           nextId, aggCount>>
          ELSE /\ reactionTracker' = [reactionTracker EXCEPT ![key] = rData]
               /\ IF OverWindow(rData)
                    THEN UNCHANGED <<userBehaviorTracker, activityQueue,
                                     nextId, aggCount>>
                    ELSE IF IsFarming(rData)
                      THEN /\ userBehaviorTracker' =
                                [userBehaviorTracker EXCEPT
                                   ![key] = flagUser(@, "reaction_farming", now)]
                           /\ UNCHANGED <<activityQueue, nextId, aggCount>>
                      ELSE /\ Track(h.guildId, h.userId, "reaction", 1)
                           /\ UNCHANGED userBehaviorTracker
  /\ pending' = RemoveAt(pending, i)
  /\ UNCHANGED <<now, activity_settings, verified_users, rows, flush,
                 activityBaseline, recentMessages, spamTracker,
                 userMessageHistory, deliveries, expired, failures, raced,
                 gated>>
  /\ UNCHANGED voiceVars
  /\ UNCHANGED logVars

\* ------------------------------------------------------------------ voice tracker
\* Math.min(effective, 240)
VOICE_CAP_MINUTES == 240

\* initActivityTracker(client = null) as the ready handler calls it, with no
\* argument: discordClient stays null.
READY_CLIENT == FALSE

\* no voice channel (oldState.channel or newState.channel is null)
NO_CHANNEL == ""

\* seq is the position of the entry in the Map's insertion order; aloneAt
\* (history) is the time of the last run of the voice timer that skipped the
\* session because the actor was alone.
NULL_SESSION ==
  [exists |-> FALSE, joinTime |-> 0, lastCheckpoint |-> 0, channelId |-> "",
   muted |-> FALSE, deafened |-> FALSE, seq |-> 0, aloneAt |-> NO_TIME]

\* (full credit whatever the mute and deafen state, still capped)
calcIgnoringAfk(rawMinutes, session) == Min(rawMinutes, VOICE_CAP_MINUTES)

\* calcEffectiveVoiceMinutes(rawMinutes, session)
calcEffectiveVoiceMinutes(rawMinutes, session) ==
  LET effective == IF session.deafened /\ session.muted THEN 0
                   ELSE IF session.deafened \/ session.muted
                     THEN rawMinutes \div 2
                   ELSE rawMinutes
  IN Min(effective, VOICE_CAP_MINUTES)

\* (the whole minutes since the checkpoint or the last skip, whichever is later)
ElapsedSinceAlone(session, t) ==
  (t - (IF session.aloneAt > session.lastCheckpoint
          THEN session.aloneAt ELSE session.lastCheckpoint)) \div MinuteMs
\* Math.floor((now - session.lastCheckpoint) / 60000)
ElapsedMinutes(session, t) == (t - session.lastCheckpoint) \div MinuteMs

\* channel.members.filter(m => !m.user.bot && m.id !== userId).size >= 1
hasOtherUsers(channelId, a) ==
  \/ channelId \in others
  \/ \E b \in Actors : b # a /\ b[1] = a[1] /\ inVoice[b] = channelId

\* One call of calcEffectiveVoiceMinutes, for the history.
CalcCall(rawMinutes, session) ==
  [rawMinutes |-> rawMinutes, muted |-> session.muted,
   deafened |-> session.deafened,
   effective |-> calcEffectiveVoiceMinutes(rawMinutes, session)]

NextSeq(sessions) ==
  LET used == {sessions[a].seq : a \in {b \in Actors : sessions[b].exists}}
  IN IF used = {} THEN 1 ELSE 1 + CHOOSE n \in used : \A k \in used : k <= n

\* voiceSessions.set(sessionKey, {joinTime, lastCheckpoint, channelId, muted,
\* deafened}): an existing key keeps its place in the Map.
JoinSession(sessions, a, channelId, muted, deafened, t) ==
  [exists |-> TRUE, joinTime |-> t, lastCheckpoint |-> t,
   channelId |-> channelId, muted |-> muted, deafened |-> deafened,
   seq |-> IF sessions[a].exists THEN sessions[a].seq ELSE NextSeq(sessions),
   aloneAt |-> NO_TIME]

\* setInterval(processVoiceSessions, 300000)
VOICE_CHECKPOINT_MS == 300000

\* (a checkpoint set to the start of the interval the timer covers)
BackdatedCheckpoint(session, t) ==
  [session EXCEPT !.lastCheckpoint = t - VOICE_CHECKPOINT_MS]

\* session.lastCheckpoint = now
AdvanceCheckpoint(session, t) == [session EXCEPT !.lastCheckpoint = t]

\* A handleVoiceStateUpdate suspended at its settings read.  transition is
\* "join" (!oldState.channel && newState.channel), "update" (both channels)
\* or "leave" (oldState.channel && !newState.channel).
VoiceHandler(guildId, userId, channelId, transition, muted, deafened) ==
  [kind |-> "voice", pc |-> "settings", guildId |-> guildId, userId |-> userId,
   channelId |-> channelId, transition |-> transition,
   muted |-> muted, deafened |-> deafened]

\* client.on('voiceStateUpdate') for a member who is not a bot: the member's
\* presence changes, and handleVoiceStateUpdate runs up to its await.
\* channelId is newState.channel.id, and oldState.channel.id for a leave.
VoiceStateUpdate(guildId, userId, channelId, transition, muted, deafened) ==
  /\ (inVoice[<<guildId, userId>>] # NO_CHANNEL) = (transition # "join")
  /\ transition = "leave" => inVoice[<<guildId, userId>>] = channelId
  /\ inVoice' = [inVoice EXCEPT ![<<guildId, userId>>] =
                   IF transition = "leave" THEN NO_CHANNEL ELSE channelId]
  /\ deliveries' = deliveries + 1
  /\ pending' = IF ACTIVITY_ENABLED
                  THEN Append(pending, VoiceHandler(guildId, userId, channelId,
                                                    transition, muted, deafened))
                  ELSE pending
  /\ UNCHANGED <<now, activity_settings, verified_users, rows, activityQueue,
                 flush, activityBaseline, userBehaviorTracker, reactionTracker,
                 recentMessages, spamTracker, userMessageHistory, gated,
                 expired, nextId, aggCount, failures, raced, voiceSessions,
                 discordClient, others, voiceCalc, voiceTicks>>
  /\ UNCHANGED logVars

\* handleVoiceStateUpdate once the settings are read
handleVoiceStateUpdate(i) ==
  /\ i \in 1..Len(pending)
  /\ pending[i].kind = "voice"
  /\ LET h == pending[i]
         key == <<h.guildId, h.userId>>
         settings == getActivitySettingsIfEnabled(h.guildId)
         session == voiceSessions[key]
         minutes == ElapsedMinutes(session, now)
         counts == minutes > 0 /\ hasOtherUsers(h.channelId, key)
     IN IF ~settings.present
          THEN /\ voiceCalc' = {}
               /\ UNCHANGED <<voiceSessions, activityQueue, nextId, aggCount>>
        ELSE IF h.transition = "join"
          THEN /\ voiceSessions' =
                    [voiceSessions EXCEPT
                       ![key] = JoinSession(voiceSessions, key, h.channelId,
                                            h.muted, h.deafened, now)]
               /\ voiceCalc' = {}
               /\ UNCHANGED <<activityQueue, nextId, aggCount>>
        ELSE IF h.transition = "update"
          THEN /\ voiceSessions' =
                    IF session.exists
                      THEN [voiceSessions EXCEPT ![key].muted = h.muted,
                                                 ![key].deafened = h.deafened]
                      ELSE voiceSessions
               /\ voiceCalc' = {}
               /\ UNCHANGED <<activityQueue, nextId, aggCount>>
        ELSE IF ~session.exists
          THEN /\ voiceCalc' = {}
               /\ UNCHANGED <<voiceSessions, activityQueue, nextId, aggCount>>
        ELSE /\ voiceSessions' = [voiceSessions EXCEPT ![key] = NULL_SESSION]
             /\ voiceCalc' = IF counts THEN {CalcCall(minutes, session)} ELSE {}
             /\ IF counts /\ calcEffectiveVoiceMinutes(minutes, session) > 0
                  THEN Track(h.guildId, h.userId, "voice",
                             calcEffectiveVoiceMinutes(minutes, session))
                  ELSE UNCHANGED <<activityQueue, nextId, aggCount>>
  /\ pending' = RemoveAt(pending, i)
  /\ UNCHANGED <<now, activity_settings, verified_users, rows, flush,
                 activityBaseline, userBehaviorTracker, reactionTracker,
                 recentMessages, spamTracker, userMessageHistory, deliveries,
                 gated, expired, failures, raced, discordClient, inVoice,
                 others, voiceTicks>>
  /\ UNCHANGED logVars

\* voiceSessions.entries(): the keys in insertion order
RECURSIVE KeysInOrder(_, _)
KeysInOrder(sessions, keys) ==
  IF keys = {} THEN <<>>
  ELSE LET a == CHOOSE x \in keys : \A y \in keys : sessions[x].seq <= sessions[y].seq
       IN <<a>> \o KeysInOrder(sessions, keys \ {a})

\* processVoiceSessions: the loop from entry k on.  acc holds the sessions,
\* the queue, the number of events created and the calls made so far.
RECURSIVE VoiceLoop(_, _, _, _)
VoiceLoop(keys, k, acc, t) ==
  IF k > Len(keys) THEN acc
  ELSE LET a == keys[k]
           session == acc.sessions[a]
           minutes == ElapsedMinutes(session, t)
           effectiveMinutes == calcEffectiveVoiceMinutes(minutes, session)
       IN IF minutes < 1
            THEN VoiceLoop(keys, k + 1, acc, t)
          ELSE IF ~hasOtherUsers(session.channelId, a)
            THEN VoiceLoop(keys, k + 1,
                   [acc EXCEPT !.sessions[a].aloneAt = t], t)
            ELSE VoiceLoop(keys, k + 1,
                   [sessions |-> [acc.sessions EXCEPT ![a] = AdvanceCheckpoint(session, t)],
                    queue |-> IF effectiveMinutes > 0
                                THEN trackActivity(acc.queue,
                                       NewEvent(a[1], a[2], "voice",
                                                effectiveMinutes, t, acc.id + 1))
                                ELSE acc.queue,
                    id |-> IF effectiveMinutes > 0 THEN acc.id + 1 ELSE acc.id,
                    calls |-> acc.calls \cup {CalcCall(minutes, session)}],
                   t)

\* setInterval(processVoiceSessions, 300000): one run of processVoiceSessions
ProcessVoiceSessions ==
  /\ voiceTicks' = voiceTicks + 1
  /\ LET keys == KeysInOrder(voiceSessions, {a \in Actors : voiceSessions[a].exists})
         r == VoiceLoop(keys, 1,
                        [sessions |-> voiceSessions, queue |-> activityQueue,
                         id |-> nextId, calls |-> {}], now)
     IN IF ~discordClient \/ keys = <<>>
          THEN UNCHANGED <<voiceSessions, activityQueue, nextId, aggCount, voiceCalc>>
          ELSE /\ voiceSessions' = r.sessions
               /\ activityQueue' = r.queue
               /\ nextId' = r.id
               /\ aggCount' = aggCount \o [j \in 1..(r.id - nextId) |-> 0]
               /\ voiceCalc' = r.calls
  /\ UNCHANGED <<now, activity_settings, verified_users, rows, flush,
                 activityBaseline, userBehaviorTracker, handlerVars, failures,
                 raced, discordClient, inVoice, others>>
  /\ UNCHANGED logVars

\* ------------------------------------------------------------------ environment
EventValues(type) == IF type = "voice" THEN {1, MaxVoiceValue} ELSE {1}

\* Some handler calls trackActivity(guildId, userId, type, value).
TrackActivity(guildId, userId, type, value) ==
  /\ nextId < MaxEvents
  /\ nextId' = nextId + 1
  /\ activityQueue' = trackActivity(activityQueue,
                        NewEvent(guildId, userId, type, value, now, nextId + 1))
  /\ aggCount' = Append(aggCount, 0)
  /\ UNCHANGED <<now, activity_settings, verified_users, rows, flush,
                 activityBaseline, userBehaviorTracker, handlerVars,
                 failures, raced>>
  /\ UNCHANGED voiceVars
  /\ UNCHANGED logVars

\* The clock advances by d, up to limit.
Tick(d, limit) ==
  /\ now + d <= limit
  /\ now' = now + d
  /\ UNCHANGED <<activity_settings, verified_users, rows, activityQueue,
                 flush, activityBaseline, userBehaviorTracker, handlerVars,
                 nextId, aggCount, failures, raced>>
  /\ UNCHANGED voiceVars
  /\ UNCHANGED logVars

\* The reasons flagUser is called with.
FlagReasons == {"cross_guild_sybil", "activity_spike", "reaction_farming"}

\* Some caller flags the actor: securityLogger.flagUser(guildId, userId, reason).
FlagUser(guildId, userId, reason) ==
  /\ userBehaviorTracker' =
       [userBehaviorTracker EXCEPT ![<<guildId, userId>>] = flagUser(@, reason, now)]
  /\ UNCHANGED <<now, activity_settings, verified_users, rows, activityQueue,
                 flush, activityBaseline, handlerVars, nextId, aggCount,
                 failures, raced>>
  /\ UNCHANGED voiceVars
  /\ UNCHANGED logVars

\* /verify or another command: securityLogger.trackUserBehavior(guildId, userId, action).
TrackUserBehavior(guildId, userId, action) ==
  /\ deliveries' = deliveries + 1
  /\ userBehaviorTracker' =
       [userBehaviorTracker EXCEPT
          ![<<guildId, userId>>] = trackUserBehavior(@, action, now)]
  /\ UNCHANGED <<now, activity_settings, verified_users, rows, activityQueue,
                 flush, activityBaseline, reactionTracker, recentMessages,
                 spamTracker, userMessageHistory, pending, expired, nextId,
                 aggCount, failures, raced, gated>>
  /\ UNCHANGED voiceVars
  /\ UNCHANGED logVars

\* setInterval(cleanupOldLogs, one day): the in-memory part.
CleanupOldLogs ==
  /\ userBehaviorTracker' =
       [a \in Actors |-> CleanupTracker(userBehaviorTracker[a], now)]
  /\ expired' = expired \cup
       {a \in Actors : /\ userBehaviorTracker[a].exists
                       /\ userBehaviorTracker[a].flags # <<>>
                       /\ ~CleanupTracker(userBehaviorTracker[a], now).exists}
  /\ UNCHANGED <<now, activity_settings, verified_users, rows, activityQueue,
                 flush, activityBaseline, reactionTracker, recentMessages,
                 spamTracker, userMessageHistory, pending, deliveries, nextId,
                 aggCount, failures, raced, gated>>
  /\ UNCHANGED voiceVars
  /\ UNCHANGED logVars

\* The clock passes midnight (UTC).
Midnight ==
  /\ Today < MaxDay
  /\ now' = (Today + 1) * DayMs
  /\ UNCHANGED <<activity_settings, verified_users, rows, activityQueue,
                 flush, activityBaseline, userBehaviorTracker, handlerVars,
                 nextId, aggCount, failures, raced>>
  /\ UNCHANGED voiceVars
  /\ UNCHANGED logVars

\* An unmodelled member joins or leaves the voice channel.
PeersChange(channelId) ==
  /\ others' = IF channelId \in others THEN others \ {channelId}
               ELSE others \cup {channelId}
  /\ UNCHANGED <<now, activity_settings, verified_users, rows, activityQueue,
                 flush, activityBaseline, userBehaviorTracker, handlerVars,
                 nextId, aggCount, failures, raced, voiceSessions,
                 discordClient, inVoice, voiceCalc, voiceTicks, logVars>>

\* /activity-setup enabled:<bool> on a guild that has a settings row:
\* db.upsertActivitySettings({guildId, enabled: enabled ? 1 : 0, ...})
ActivitySetup(guildId, enabled) ==
  /\ activity_settings[guildId].present
  /\ activity_settings[guildId].enabled # enabled
  /\ activity_settings' = [activity_settings EXCEPT ![guildId].enabled = enabled]
  /\ UNCHANGED <<now, verified_users, rows, activityQueue, flush,
                 activityBaseline, userBehaviorTracker, handlerVars, nextId,
                 aggCount, failures, raced, voiceVars, logVars>>

\* upsertActivitySettings with the tier table and the bonus switch given by
\* the caller; holding-count thresholds and multipliers (hundredths) are
\* stored as given. Applied to a settings row that holds the default tiers.
ConfigureTiers(guildId, tiers, bonus) ==
  /\ activity_settings[guildId].present
  /\ activity_settings[guildId].nft_tier1_multiplier = 100
  /\ activity_settings[guildId].nft_tier2_multiplier = 120
  /\ activity_settings[guildId].nft_tier3_multiplier = 150
  /\ nextId = 0
  /\ activity_settings' =
       [activity_settings EXCEPT ![guildId] =
          [@ EXCEPT !.nft_bonus_enabled = bonus,
                    !.nft_tier1_count = tiers[1].count,
                    !.nft_tier1_multiplier = tiers[1].multiplier,
                    !.nft_tier2_count = tiers[2].count,
                    !.nft_tier2_multiplier = tiers[2].multiplier,
                    !.nft_tier3_count = tiers[3].count,
                    !.nft_tier3_multiplier = tiers[3].multiplier]]
  /\ UNCHANGED <<now, verified_users, rows, activityQueue, flush,
                 activityBaseline, userBehaviorTracker, handlerVars, nextId,
                 aggCount, failures, raced, voiceVars, logVars>>

\* upsertVerifiedUser: the actor's verified holding count is stored
upsertVerifiedUser(guildId, userId, nftBalance) ==
  /\ nextId = 0
  /\ verified_users[<<guildId, userId>>] # VerifiedRow(nftBalance)
  /\ verified_users' =
       [verified_users EXCEPT ![<<guildId, userId>>] = VerifiedRow(nftBalance)]
  /\ UNCHANGED <<now, activity_settings, rows, activityQueue, flush,
                 activityBaseline, userBehaviorTracker, handlerVars, nextId,
                 aggCount, failures, raced, voiceVars, logVars>>

\* deleteVerifiedUser
deleteVerifiedUser(guildId, userId) ==
  /\ nextId = 0
  /\ verified_users[<<guildId, userId>>].present
  /\ verified_users' =
       [verified_users EXCEPT ![<<guildId, userId>>] = NULL_VERIFIED]
  /\ UNCHANGED <<now, activity_settings, rows, activityQueue, flush,
                 activityBaseline, userBehaviorTracker, handlerVars, nextId,
                 aggCount, failures, raced, voiceVars, logVars>>

\* resetWeeklyScores(guildId): UPDATE ... SET week_score = 0 WHERE guild_id
\* UPDATE ... SET total_score = 0 (the other score column)
resetTotalScores(guildId) ==
  /\ rows' = [a \in Actors |->
               IF a[1] = guildId THEN [rows[a] EXCEPT !.total_score = 0]
               ELSE rows[a]]
  /\ UNCHANGED <<now, activity_settings, verified_users, activityQueue, flush,
                 activityBaseline, userBehaviorTracker, handlerVars, nextId,
                 aggCount, failures, raced, voiceVars, logVars>>

resetWeeklyScores(guildId) ==
  /\ rows' = [a \in Actors |->
               IF a[1] = guildId THEN [rows[a] EXCEPT !.week_score = 0]
               ELSE rows[a]]
  /\ UNCHANGED <<now, activity_settings, verified_users, activityQueue, flush,
                 activityBaseline, userBehaviorTracker, handlerVars, nextId,
                 aggCount, failures, raced, voiceVars, logVars>>

\* resetWeeklyActivity(): UPDATE activity_tracking SET week_score = 0
resetWeeklyActivity ==
  /\ rows' = [a \in Actors |-> [rows[a] EXCEPT !.week_score = 0]]
  /\ UNCHANGED <<now, activity_settings, verified_users, activityQueue, flush,
                 activityBaseline, userBehaviorTracker, handlerVars, nextId,
                 aggCount, failures, raced, voiceVars, logVars>>

\* Time passes by d milliseconds, at most limit times; the steps taken are
\* counted within the current period of per milliseconds (since the start
\* when per is 0).
Wait(d, per, limit) ==
  /\ (IF per > 0 THEN (now % per) \div d ELSE now \div d) < limit
  /\ now' = now + d
  /\ UNCHANGED <<activity_settings, verified_users, rows, activityQueue,
                 flush, activityBaseline, userBehaviorTracker, handlerVars,
                 nextId, aggCount, failures, raced, voiceVars, logVars>>

\* ------------------------------------------------------------------ initial state
\* g1 has a settings row with small caps and the holding bonus enabled, g2 has
\* no settings row; u1 holds 3 tokens in g1.
InitSettings ==
  [g \in Guilds |-> IF g = "g1" THEN SettingsRow(2, 1, 1, 2, 1) ELSE NULL_SETTINGS]

InitVerified ==
  [a \in Actors |-> IF a = <<"g1", "u1">> THEN VerifiedRow(3) ELSE NULL_VERIFIED]

InitStore ==
  /\ activity_settings = InitSettings
  /\ verified_users = InitVerified
  /\ rows = [a \in Actors |-> NULL_ROW]
  /\ activityQueue = <<>>
  /\ flush = [f \in FlushIds |-> IdleFlush]
  /\ reactionTracker = [a \in Actors |-> NULL_REACTIONS]
  /\ recentMessages = [u \in Users |-> NO_TIME]
  /\ spamTracker = [u \in Users |-> NULL_SPAM]
  /\ userMessageHistory = [u \in Users |-> <<>>]
  /\ pending = <<>>
  /\ deliveries = 0
  /\ gated = 0
  /\ expired = {}
  /\ nextId = 0
  /\ aggCount = <<>>
  /\ failures = 0
  /\ raced = {}
  /\ voiceSessions = [a \in Actors |-> NULL_SESSION]
  /\ inVoice = [a \in Actors |-> NO_CHANNEL]
  /\ others = {}
  /\ voiceCalc = {}
  /\ voiceTicks = 0
  /\ lastReturn = "none"
  /\ lastContent = <<>>
  /\ lastFlushEmpty = FALSE

\* The process has just started: the clock at 0, no baseline yet.
InitBase ==
  /\ InitStore
  /\ now = 0
  /\ activityBaseline = [a \in Actors |-> NULL_BASELINE]

\* Nobody has used a command or been flagged yet.
Init ==
  /\ InitBase
  /\ userBehaviorTracker = [a \in Actors |-> NULL_TRACKER]
  /\ discordClient = READY_CLIENT

\* ------------------------------------------------------------------ Spec: queue and flush
\* The event queue and the flush cycles on one day, store accesses failing or
\* not: three actors in two guilds send message and reply events.
QueueActors == {<<"g1", "u1">>, <<"g1", "u2">>, <<"g2", "u1">>}
QueueTypes == {"message", "reply"}

Next ==
  \/ \E a \in QueueActors, type \in QueueTypes : \E value \in EventValues(type) :
       TrackActivity(a[1], a[2], type, value)
  \/ \E f \in FlushIds : ProcessBatch(f)
  \/ \E f \in FlushIds : LoadSettings(f)
  \/ \E f \in FlushIds : LoadSettingsFails(f)
  \/ \E f \in FlushIds : ReadDaily(f)
  \/ \E f \in FlushIds : WriteActivity(f)
  \/ \E f \in FlushIds : BatchWriteFails(f)

Spec == Init /\ [][Next]_vars

\* ------------------------------------------------------------------ SpecDaily: caps and dates
\* Batch writes against the daily caps of g1 across midnight: two actors of g1
\* send events of all four kinds; every store access succeeds.
DailyInputs ==
  {<<"u1", type, value>> : type \in Types, value \in {1, MaxVoiceValue}} \cup {<<"u2", "message", 1>>}

NextDaily ==
  \/ \E e \in DailyInputs :
       /\ e[3] \in EventValues(e[2])
       /\ TrackActivity("g1", e[1], e[2], e[3])
  \/ Midnight
  \/ \E f \in FlushIds : ProcessBatch(f)
  \/ \E f \in FlushIds : LoadSettings(f)
  \/ \E f \in FlushIds : ReadDaily(f)
  \/ \E f \in FlushIds : ResetDaily(f)
  \/ \E f \in FlushIds : WriteActivity(f)

SpecDaily == Init /\ [][NextDaily]_vars

\* ------------------------------------------------------------------ properties of the flush
CapsOf(guildId) == activity_settings[guildId]

WithinCaps(row, settings) ==
  /\ row.daily_messages <= dailyMessageCap(settings)
  /\ row.daily_replies <= dailyReplyCap(settings)
  /\ row.daily_reactions <= dailyReactionCap(settings)
  /\ row.daily_voice <= dailyVoiceCap(settings)

\* C1: after any batch writes, every counters row has each of its four daily
\* sub-counters at or below the cap its community configured for that kind.
DailyWithinCaps ==
  \A a \in Actors : rows[a].exists => WithinCaps(rows[a], CapsOf(a[1]))

\* A row stands over a cap although every single write was clamped: two
\* flush cycles read the same daily state and both added their amount.
OverCapByOverlap ==
  \E a \in Actors : /\ rows[a].exists
                    /\ ~WithinCaps(rows[a], CapsOf(a[1]))
                    /\ a \in raced

InQueue(i) == \E k \in 1..Len(activityQueue) : activityQueue[k].id = i
Loading(i) ==
  \E f \in FlushIds : flush[f].pc = "load" /\ i \in EventIds(flush[f].events)
Holders(i) ==
  Cardinality({k \in 1..Len(activityQueue) : activityQueue[k].id = i})
  + Cardinality({f \in FlushIds : i \in EventIds(flush[f].events)})

\* C3: as long as no store access has failed, every event trackActivity
\* appended is either still waiting (in the queue, or drained by a cycle that
\* is still loading settings) and aggregated by no cycle, or it has been
\* aggregated by exactly one cycle; it is never held in two places.
EachEventInOneCycle ==
  failures = 0 =>
    \A i \in 1..nextId :
      /\ Holders(i) <= 1
      /\ aggCount[i] = (IF InQueue(i) \/ Loading(i) THEN 0 ELSE 1)

\* Two cycles are in flight, the later one past its aggregation, and a third
\* event was appended while they ran.
TwoCyclesAggregated ==
  /\ failures = 0
  /\ flush["f1"].pc \notin {"idle", "load"}
  /\ flush["f2"].pc \notin {"idle", "load"}
  /\ activityQueue # <<>>
  /\ \A i \in EventIds(flush["f1"].events) \cup EventIds(flush["f2"].events) :
       aggCount[i] = 1

\* The step is a failing store access of cycle f.
FailsIn(f) ==
  /\ failures' = failures + 1
  /\ flush[f].pc # "idle"
  /\ flush'[f].pc = "idle"

\* C4: whenever a store access of a flush cycle fails, be it the load of a
\* community's settings or a batch write, every event the cycle drained is
\* back on the queue after the step.
FailureRequeuesAll ==
  [][\A f \in FlushIds :
       FailsIn(f) =>
         \A i \in EventIds(flush[f].events) :
           \E k \in 1..Len(activityQueue') : activityQueue'[k].id = i]_vars

\* The step is cycle f's upsert of an actor whose stored row was stale when
\* getDailyActivity read it.
WritesAfterReset(f) ==
  /\ flush[f].pc = "write"
  /\ flush[f].wasReset
  /\ flush'[f] # flush[f]

\* C7: when the stored reset date of an actor's row differed from today as
\* getDailyActivity read it, the scoring of that actor clamps against zeroed
\* daily counters and leaves the row's reset date equal to that same today.
ResetLeavesToday ==
  [][\A f \in FlushIds :
       WritesAfterReset(f) =>
         /\ flush[f].dailyData = FreshDaily(flush[f].gtoday)
         /\ rows'[CurKey(flush[f])].daily_reset_date = flush[f].gtoday]_vars

\* A stale row was reset and written on the day both calls agree on.
ResetAndWritten ==
  \E f \in FlushIds :
    /\ flush[f].pc = "write"
    /\ flush[f].wasReset
    /\ flush[f].btoday = flush[f].gtoday
    /\ rows[CurKey(flush[f])].daily_reset_date = Today

\* ------------------------------------------------------------------ SpecLedger: flags and penalties
\* The penalty ledger of two actors of g1 over idle days: the commands of u1,
\* flags and the daily cleanup.  u1 starts with 20 /verify attempts in the
\* last hour.
LedgerActors == {<<"g1", "u1">>, <<"g1", "u2">>}
IdleStepMs == 4 * DayMs

VerifiedOften ==
  [NULL_TRACKER EXCEPT
     !.exists = TRUE,
     !.actions = [i \in 1..VERIFY_ATTEMPTS_LIMIT |->
                    [action |-> "verify", timestamp |-> 0]],
     !.verifyAttempts = VERIFY_ATTEMPTS_LIMIT]

InitLedger ==
  /\ InitBase
  /\ userBehaviorTracker =
       [a \in Actors |-> IF a = <<"g1", "u1">> THEN VerifiedOften ELSE NULL_TRACKER]
  /\ discordClient = READY_CLIENT

NextLedger ==
  \/ \E action \in {"verify", "command"} :
       /\ deliveries < MaxCommands
       /\ TrackUserBehavior("g1", "u1", action)
  \/ \E a \in LedgerActors, reason \in FlagReasons : FlagUser(a[1], a[2], reason)
  \/ CleanupOldLogs
  \/ Tick(IdleStepMs, MaxIdleSteps * IdleStepMs)

SpecLedger == InitLedger /\ [][NextLedger]_vars

\* ------------------------------------------------------------------ SpecReactions: the reaction guard
\* u1 reacts in g1 to messages of u2, each time to another message, over
\* six minutes.
ReactionStepMs == 3 * MinuteMs

NextReactions ==
  \/ /\ deliveries < MaxReactions
     /\ Len(pending) < MaxInFlight
     /\ MessageReactionAdd("g1", "u1", "c1", deliveries + 1, "u2")
  \/ \E i \in 1..MaxInFlight : handleReactionAdd(i)
  \/ Tick(ReactionStepMs, MaxReactionSteps * ReactionStepMs)

SpecReactions == Init /\ [][NextReactions]_vars

\* ------------------------------------------------------------------ SpecGate: gate, queue and scoring
\* u1 writes and reacts in g1 while being flagged, and one flush cycle at a
\* time scores what was queued.
Hello == <<104, 101, 108, 108, 111>>
Hi == <<104, 105>>
GateMessages == {<<Hello, "none">>, <<Hello, "other">>, <<Hi, "none">>}

NextGate ==
  \/ \E m \in GateMessages :
       /\ deliveries < MaxDeliveries
       /\ Len(pending) < MaxInFlight
       /\ MessageCreate("g1", "u1", "c1", m[1], m[2])
  \/ \E i \in 1..MaxInFlight : handleMessage(i)
  \/ \E i \in 1..MaxInFlight : handleMessageReply(i)
  \/ \E authorId \in Users :
       /\ deliveries < MaxDeliveries
       /\ Len(pending) < MaxInFlight
       /\ MessageReactionAdd("g1", "u1", "c1", 1, authorId)
  \/ \E i \in 1..MaxInFlight : handleReactionAdd(i)
  \/ \E reason \in FlagReasons : FlagUser("g1", "u1", reason)
  \/ Tick(cooldownMs, MaxCooldowns * cooldownMs)
  \/ ProcessBatch("f1")
  \/ LoadSettings("f1")
  \/ ReadDaily("f1")
  \/ WriteActivity("f1")

SpecGate == Init /\ [][NextGate]_vars

\* ------------------------------------------------------------------ properties of the ledger
FlagsOf(tracker) == IF tracker.exists THEN tracker.flags ELSE <<>>
FlagCount(a) == Len(FlagsOf(userBehaviorTracker[a]))

\* C5: the penalty multiplier of every actor is the table value of its flag
\* count alone (1.0 for none or one flag, 0.5 for two, 0 for three or more),
\* whatever else the tracker holds, and the actor is blocked exactly when it
\* has three or more flags.
PenaltyByFlagCount ==
  \A a \in Actors :
    LET n == FlagCount(a)
        m == getPenaltyMultiplier(a[1], a[2])
    IN /\ n = 0 => m = 100
       /\ n = 1 => m = 100
       /\ n = 2 => m = 50
       /\ n >= 3 => m = 0
       /\ isUserBlocked(a[1], a[2]) <=> n >= 3

\* One actor stands at four flags, another at exactly two.
FourFlagsAndTwo ==
  /\ FlagCount(<<"g1", "u1">>) = 4
  /\ FlagCount(<<"g1", "u2">>) = 2
  /\ userBehaviorTracker[<<"g1", "u1">>].lastSeen # userBehaviorTracker[<<"g1", "u2">>].lastSeen

IsPrefix(s, t) == Len(s) <= Len(t) /\ SubSeq(t, 1, Len(s)) = s

\* C9 as stated: no step makes an actor's list of flags shorter or its
\* penalty multiplier larger.
FlagsNeverShrink ==
  [][\A a \in Actors :
       /\ Len(FlagsOf(userBehaviorTracker'[a])) >= Len(FlagsOf(userBehaviorTracker[a]))
       /\ PenaltyForCount(Len(FlagsOf(userBehaviorTracker'[a])))
            <= PenaltyForCount(Len(FlagsOf(userBehaviorTracker[a])))]_vars

\* C9 as it holds: an actor's flags are only ever extended, except that the
\* daily cleanup deletes the whole tracker entry, flags included, of an actor
\* whose lastSeen is more than seven days old.
FlagsLostOnlyWhenStale ==
  [][\A a \in Actors :
       \/ IsPrefix(FlagsOf(userBehaviorTracker[a]), FlagsOf(userBehaviorTracker'[a]))
       \/ /\ now - userBehaviorTracker[a].lastSeen > MAX_AGE_MS
          /\ ~userBehaviorTracker'[a].exists]_vars

\* The cleanup has deleted the flags of an actor, who is unflagged again.
FlagsExpired ==
  \E a \in expired : FlagCount(a) = 0 /\ ~userBehaviorTracker[a].exists

\* ------------------------------------------------------------------ properties of the reaction guard
\* The reaction events of actor a on the queue whose timestamps lie in [from, to).
ReactionsIn(a, from, to) ==
  {j \in 1..Len(activityQueue) :
     /\ activityQueue[j].type = "reaction"
     /\ activityQueue[j].guildId = a[1] /\ activityQueue[j].userId = a[2]
     /\ from <= activityQueue[j].timestamp /\ activityQueue[j].timestamp < to}

pipelineVars == <<activityQueue, pending, recentMessages, spamTracker,
                  userMessageHistory, reactionTracker>>

BlockedEarnsNothing ==
  [][\A a \in Actors :
       (FlagCount(a) >= 3 /\ Len(FlagsOf(userBehaviorTracker'[a])) >= 3) =>
         /\ rows'[a].total_score <= rows[a].total_score
         /\ rows'[a].week_score <= rows[a].week_score]_vars

\* round(base x holding multiplier x penalty multiplier, 2 decimals), in
\* hundredths
PenalizedScore(eff, settings, verifiedUser, penalty) ==
  LET nftMultiplier == IF settings.present
                         THEN getNftMultiplier(verifiedUser, settings)
                         ELSE 100
  IN (BaseScore(eff, settings) * nftMultiplier * penalty + 5000) \div 10000

\* C6: every write of an actor's aggregate adds to the total and to the
\* weekly score the clamped weighted sum times the holding multiplier times
\* the actor's penalty multiplier, rounded to two decimals.
DeltaScaledByPenalty ==
  [][\A f \in FlushIds :
       (flush[f].pc = "write" /\ flush'[f] # flush[f]) =>
         LET fl == flush[f]
             key == CurKey(fl)
             eff == EffectiveCounts(CurUpdate(fl), fl.dailyData, CurSettings(fl))
             delta == PenalizedScore(eff, CurSettings(fl), verified_users[key],
                                     getPenaltyMultiplier(key[1], key[2]))
         IN /\ rows'[key].total_score = rows[key].total_score + delta
            /\ rows'[key].week_score = rows[key].week_score + delta]_vars

\* ------------------------------------------------------------------ SpecFarming: reaction patterns
\* u1 reacts in g1 again and again to the first message or to one it has not
\* reacted to yet, written by u2 or by u1 itself, all within one window.
FarmingTargets == {1, Cardinality(reactionTracker[<<"g1", "u1">>].uniqueMessages) + 1}

NextFarming ==
  \/ \E messageId \in FarmingTargets, authorId \in Users :
       /\ deliveries < MaxReactions
       /\ Len(pending) < MaxInFlight
       /\ MessageReactionAdd("g1", "u1", "c1", messageId, authorId)
  \/ \E i \in 1..MaxInFlight : handleReactionAdd(i)

SpecFarming == Init /\ [][NextFarming]_vars

\* The step handles the reaction of handler i, which counts: the channel is
\* tracked and the message is not the actor's own.
CountsReaction(i) ==
  /\ i \in 1..Len(pending)
  /\ handleReactionAdd(i)
  /\ pending[i].authorId # pending[i].userId
  /\ reactionTracker'[<<pending[i].guildId, pending[i].userId>>]
       # reactionTracker[<<pending[i].guildId, pending[i].userId>>]

\* count > 10 and distinct targets / count < 0.3
LowRatio(rData) ==
  /\ rData.count > REACTION_RATIO_MIN_COUNT
  /\ Cardinality(rData.uniqueMessages) * 10 < REACTION_UNIQUE_RATIO_TENTHS * rData.count

Flagged(tracker, reason) ==
  \E k \in 1..Len(FlagsOf(tracker)) : FlagsOf(tracker)[k] = reason

OwnReactionNotCounted ==
  [][\A i \in 1..MaxInFlight + 1 :
       (/\ i \in 1..Len(pending)
        /\ handleReactionAdd(i)
        /\ pending[i].authorId = pending[i].userId)
         => UNCHANGED <<activityQueue, reactionTracker, nextId>>]_vars

\* u1 has reacted to messages of u2 and to one of its own, all at time 0: a
\* delivery was handled that the window did not count.
OwnReactionHandled ==
  LET a == <<"g1", "u1">>
  IN /\ now = 0
     /\ pending = <<>>
     /\ reactionTracker[a].exists
     /\ reactionTracker[a].count >= 2
     /\ reactionTracker[a].count < deliveries

\* ------------------------------------------------------------------ SpecVoice: voice sessions
\* u1 joins, mutes and leaves the voice channel of g1 while time passes, other
\* members come and go, tracking is switched off and on, and the voice
\* timer fires.  The tracker was initialised with the client or without it.
VoiceStepMs == 90 * 1000
LongStayMs == 245 * MinuteMs
VoiceInputs ==
  {<<"u1", transition, muted, deafened>> :
     transition \in {"join", "update"}, muted \in BOOLEAN, deafened \in BOOLEAN}
  \cup {<<"u1", "leave", FALSE, FALSE>>}

InitVoice ==
  /\ InitBase
  /\ userBehaviorTracker = [a \in Actors |-> NULL_TRACKER]
  /\ discordClient \in BOOLEAN

NextVoice ==
  \/ \E e \in VoiceInputs :
       /\ deliveries < MaxVoiceUpdates
       /\ Len(pending) < MaxInFlight
       /\ VoiceStateUpdate("g1", e[1], "c1", e[2], e[3], e[4])
  \/ \E i \in 1..MaxInFlight : handleVoiceStateUpdate(i)
  \/ voiceTicks < MaxVoiceTicks /\ ProcessVoiceSessions
  \/ PeersChange("c1")
  \/ \E enabled \in {0, 1} : ActivitySetup("g1", enabled)
  \/ Wait(VoiceStepMs, LongStayMs, MaxShortWaits)
  \/ Wait(LongStayMs, 0, MaxLongStays)

SpecVoice == InitVoice /\ [][NextVoice]_vars

\* ------------------------------------------------------------------ SpecReady: the voice timer as started
\* The same, in the system as the ready handler starts it.
SpecReady == Init /\ [][NextVoice]_vars

\* ------------------------------------------------------------------ properties of the voice tracker
\* C13: every call of calcEffectiveVoiceMinutes returns 0 for a session that
\* is muted and deafened, half the raw minutes rounded down for one that is
\* only muted or only deafened, and the raw minutes otherwise, and never more
\* than 240.
VoiceCreditRule ==
  \A c \in voiceCalc :
    /\ c.effective <= 240
    /\ (c.muted /\ c.deafened) => c.effective = 0
    /\ (c.muted # c.deafened) =>
         IF c.rawMinutes >= 482 THEN c.effective = 240
         ELSE 2 * c.effective <= c.rawMinutes /\ c.rawMinutes <= 2 * c.effective + 1
    /\ (~c.muted /\ ~c.deafened) =>
         c.effective = (IF c.rawMinutes > 240 THEN 240 ELSE c.rawMinutes)

\* A session that was only muted or only deafened is credited for 491 raw
\* minutes: half of them is over the cap.
LongMutedStay ==
  \E c \in voiceCalc :
    c.muted # c.deafened /\ c.rawMinutes = 491 /\ c.effective = 240

\* C14: the lastCheckpoint of a voice session is never earlier than its
\* joinTime, and no step that keeps the session moves it back.
CheckpointNeverRegresses ==
  [][\A a \in Actors :
       /\ voiceSessions'[a].exists =>
            voiceSessions'[a].lastCheckpoint >= voiceSessions'[a].joinTime
       /\ (voiceSessions[a].exists /\ voiceSessions'[a].exists) =>
            voiceSessions'[a].lastCheckpoint >= voiceSessions[a].lastCheckpoint]_vars

\* The timer has advanced the checkpoint of a session that was muted by an
\* update after it was joined.
CheckpointAdvanced ==
  LET session == voiceSessions[<<"g1", "u1">>]
  IN /\ session.exists
     /\ session.lastCheckpoint > session.joinTime
     /\ session.muted
     /\ voiceTicks > 0
     /\ deliveries >= 2

\* C15: every run of the voice timer, for every session a whole minute past
\* its checkpoint in a channel with another member, sets lastCheckpoint to
\* the time of the run and queues a voice event when the adjusted minutes
\* are positive.
TimerCreditsAndAdvances ==
  [][voiceTicks' # voiceTicks =>
       \A a \in Actors :
         (/\ voiceSessions[a].exists
          /\ ElapsedMinutes(voiceSessions[a], now) >= 1
          /\ hasOtherUsers(voiceSessions[a].channelId, a)) =>
           /\ voiceSessions'[a].lastCheckpoint = now
           /\ calcEffectiveVoiceMinutes(ElapsedMinutes(voiceSessions[a], now),
                                        voiceSessions[a]) > 0
                => Len(activityQueue') > Len(activityQueue)]_vars

\* The step handles the leave of handler i.
HandlesLeave(i) ==
  /\ i \in 1..Len(pending)
  /\ handleVoiceStateUpdate(i)
  /\ pending[i].transition = "leave"

\* C16: handling the leave of an actor who has a session discards the
\* session in every case, and queues a voice event exactly when a whole
\* minute has passed since the checkpoint, another member was present and
\* the adjusted minutes are positive.
LeaveEndsSession ==
  [][\A i \in 1..MaxInFlight + 1 :
       LET key == <<pending[i].guildId, pending[i].userId>>
           session == voiceSessions[key]
           minutes == ElapsedMinutes(session, now)
       IN (HandlesLeave(i) /\ session.exists) =>
            /\ ~voiceSessions'[key].exists
            /\ (Len(activityQueue') > Len(activityQueue))
                 <=> (/\ minutes >= 1
                      /\ hasOtherUsers(pending[i].channelId, key)
                      /\ calcEffectiveVoiceMinutes(minutes, session) > 0)]_vars

\* ------------------------------------------------------------------ SpecFilter: the quality filter
\* u1 writes in g1, over a little more than a minute: short and padded
\* messages, near-duplicates, long messages sharing most of their words,
\* and a reply.
Pad == <<32, 97, 32>>
Hell == <<104, 101, 108, 108>>
Hello1 == <<72, 101, 108, 108, 111, 32, 49>>
Hello2 == <<72, 101, 108, 108, 111, 32, 50>>
WhatTime == <<119, 104, 97, 116, 32, 116, 105, 109, 101>>
\* "hello world again there today maybe never could " and a last word
LongStem ==
  Hello \o <<32, 119, 111, 114, 108, 100, 32, 97, 103, 97, 105, 110, 32>>
  \o <<116, 104, 101, 114, 101, 32, 116, 111, 100, 97, 121, 32>>
  \o <<109, 97, 121, 98, 101, 32, 110, 101, 118, 101, 114, 32>>
  \o <<99, 111, 117, 108, 100, 32>>
LongFolks == LongStem \o <<102, 111, 108, 107, 115>>
LongGuys == LongStem \o <<103, 117, 121, 115, 115>>
FilterMessages ==
  {<<Pad, "none">>, <<Hi, "other">>, <<Hell, "none">>, <<Hello, "none">>,
   <<Hello1, "none">>, <<Hello2, "none">>, <<WhatTime, "other">>,
   <<LongFolks, "none">>, <<LongGuys, "none">>}

NextFilter ==
  \/ \E m \in FilterMessages :
       /\ deliveries < MaxMessages
       /\ Len(pending) < MaxInFlight
       /\ MessageCreate("g1", "u1", "c1", m[1], m[2])
  \/ \E i \in 1..MaxInFlight : handleMessage(i)
  \/ \E i \in 1..MaxInFlight : handleMessageReply(i)
  \/ Wait(cooldownMs \div 2, SPAM_WINDOW_MS, MaxHalfCooldowns)
  \/ Wait(SPAM_WINDOW_MS, 0, MaxSpamWindows)

SpecFilter == Init /\ [][NextFilter]_vars

\* ------------------------------------------------------------------ properties of the quality filter
\* the handler at position i finishes handleMessage in this step, in a
\* tracked channel: it leaves `pending`, or goes on to fetch the message it
\* replies to
FiltersMessage(i) ==
  /\ pending[i].kind = "message" /\ pending[i].pc = "settings"
  /\ now' = now /\ deliveries' = deliveries
  /\ \/ pending' = RemoveAt(pending, i)
     \/ pending' = [pending EXCEPT ![i].pc = "fetch"]
  /\ getActivitySettingsIfEnabled(pending[i].guildId).present
  /\ isChannelTracked(pending[i].channelId,
                      getActivitySettingsIfEnabled(pending[i].guildId))

Verdict(i) == shouldScoreMessage(pending[i].userId, pending[i].content, now)

\* nothing is queued in this step, and the handler does not go on to the reply
Unscored(i) ==
  /\ activityQueue' = activityQueue
  /\ Len(pending') < Len(pending)

\* C17 (as stated): a message whose trimmed length is below the minimum is
\* never scored: shouldScoreMessage returns false and neither a message nor
\* a reply event is queued.
ShortTrimmedNeverScored ==
  [][\A i \in 1..Len(pending) :
       (Len(trim(pending[i].content)) < minMessageLength /\ FiltersMessage(i))
         => (~Verdict(i).ok /\ Unscored(i))]_vars

\* C17 (amended): a message whose length as received, white space included,
\* is below the minimum is never scored: shouldScoreMessage returns false
\* and neither a message nor a reply event is queued.
ShortNeverScored ==
  [][\A i \in 1..Len(pending) :
       (Len(pending[i].content) < minMessageLength /\ FiltersMessage(i))
         => (~Verdict(i).ok /\ Unscored(i))]_vars

\* the two-character reply was delivered and handled, and left nothing
ShortHandled ==
  /\ lastReturn = "length"
  /\ deliveries = 1
  /\ pending = <<>>
  /\ activityQueue = <<>>
  /\ getActivitySettingsIfEnabled("g1").present

\* calculateSimilarity(content, m) >= SIMILARITY_THRESHOLD for a remembered m
SimilarToRemembered(i) ==
  \E k \in 1..Len(userMessageHistory[pending[i].userId]) :
    IsSimilar(pending[i].content, userMessageHistory[pending[i].userId][k])

\* C18 (as stated): a message whose similarity to any message in the actor's
\* last-10 history reaches the threshold is rejected; so "Hello 2" after
\* "Hello 1", and any exact repeat of a remembered message.
SimilarRejected ==
  [][\A i \in 1..Len(pending) :
       (FiltersMessage(i) /\ SimilarToRemembered(i))
         => (~Verdict(i).ok /\ Unscored(i))]_vars

\* C18 (amended): a message of at least 5 characters whose similarity to any
\* message in the actor's last-10 history reaches the threshold is rejected
\* (as gibberish or as a duplicate), and is not remembered itself.
SimilarLongEnoughRejected ==
  [][\A i \in 1..Len(pending) :
       (/\ Len(pending[i].content) >= 5
        /\ FiltersMessage(i)
        /\ SimilarToRemembered(i))
         => (/\ lastReturn' \in {"gibberish", "duplicate"}
             /\ Unscored(i)
             /\ userMessageHistory' = userMessageHistory)]_vars

\* "Hello 1" was scored and is remembered; the next message was rejected as
\* its near-duplicate
NearDuplicateRejected ==
  /\ lastReturn = "duplicate"
  /\ userMessageHistory["u1"] = <<Hello1>>
  /\ deliveries = 2
  /\ pending = <<>>
  /\ Len(activityQueue) = 1

\* the scored messages of one actor, as positions in the queue
MessagesOf(userId) ==
  {k \in 1..Len(activityQueue) :
     activityQueue[k].type = "message" /\ activityQueue[k].userId = userId}

\* C19: any two scored messages of one actor are at least the cooldown
\* apart, so of several messages sent in rapid succession only the first is
\* scored.
ScoredCooldownApart ==
  \A userId \in Users : \A k, l \in MessagesOf(userId) :
    k < l => activityQueue[l].timestamp - activityQueue[k].timestamp >= cooldownMs

\* two messages were scored exactly one cooldown apart, and one that came
\* right after was rejected for the cooldown
RejectedInCooldown ==
  /\ lastReturn = "cooldown"
  /\ \E k, l \in MessagesOf("u1") :
       activityQueue[l].timestamp - activityQueue[k].timestamp = cooldownMs

\* the messages of one actor scored in the 60 seconds up to now, as
\* positions in the queue after this step
ScoredLastMinute(userId) ==
  {k \in 1..Len(activityQueue') :
     /\ activityQueue'[k].type = "message"
     /\ activityQueue'[k].userId = userId
     /\ activityQueue'[k].timestamp > now - SPAM_WINDOW_MS}

RunChars == {97, 49, 33, 32, 10}
RunStarts ==
  {<<>>, <<98>>, <<32>>, <<60, 64>>, <<104, 116, 116, 112, 58, 47, 47>>,
   <<60, 58, 97, 58, 49, 62>>}
RunEnds == {<<>>, <<98>>}
RunOf(c, n) == [k \in 1..n |-> c]
HelloWorld == <<104, 101, 108, 108, 111, 32, 119, 111, 114, 108, 100>>
RunMessages ==
  {HelloWorld} \cup
  {pre \o RunOf(c, n) \o post :
     pre \in RunStarts, c \in RunChars, n \in 6..MaxRun, post \in RunEnds}

NextRuns ==
  \/ \E content \in RunMessages :
       /\ deliveries < 1
       /\ MessageCreate("g1", "u1", "c1", content, "none")
  \/ \E i \in 1..MaxInFlight : handleMessage(i)

SpecRuns == Init /\ [][NextRuns]_vars

\* ------------------------------------------------------------------ properties of the gibberish check
\* the text holds 7 or more identical consecutive characters
HasRunOfSeven(text) ==
  \E i \in 1..(Len(text) - 6) : \A k \in 1..6 : text[i + k] = text[i]

\* ... other than line terminators
HasVisibleRunOfSeven(text) ==
  \E i \in 1..(Len(text) - 6) :
    /\ text[i] \notin {10, 13, 8232, 8233}
    /\ \A k \in 1..6 : text[i + k] = text[i]

\* C21 (as stated): every message containing a run of 7 or more identical
\* consecutive characters is classified as gibberish and is not scored,
\* while "hello world" is not classified as gibberish.
RunIsGibberish ==
  [][\A i \in 1..Len(pending) :
       FiltersMessage(i) =>
         /\ HasRunOfSeven(pending[i].content)
              => (/\ isGibberish(pending[i].content)
                  /\ lastReturn' = "gibberish"
                  /\ Unscored(i))
         /\ pending[i].content = HelloWorld
              => ~isGibberish(pending[i].content)]_vars

\* C21 (amended): every message that, once trimmed, does not begin with a
\* mention, a URL scheme or a custom emoji and contains a run of 7 or more
\* identical consecutive characters other than line terminators is
\* classified as gibberish and is not scored, while "hello world" is not
\* classified as gibberish.
VisibleRunIsGibberish ==
  [][\A i \in 1..Len(pending) :
       FiltersMessage(i) =>
         /\ (/\ ~IsAllowedStart(trim(pending[i].content))
             /\ HasVisibleRunOfSeven(trim(pending[i].content)))
              => (/\ isGibberish(pending[i].content)
                  /\ lastReturn' = "gibberish"
                  /\ Unscored(i))
         /\ pending[i].content = HelloWorld
              => (~isGibberish(pending[i].content) /\ lastReturn' = "scored")]_vars

\* "aaaaaaaaaaa" was rejected as gibberish
ElevenLettersRejected ==
  /\ lastContent = RunOf(97, 11)
  /\ lastReturn = "gibberish"
  /\ activityQueue = <<>>

\* ------------------------------------------------------------------ properties of the flush
\* C22: a processBatch that finds the queue empty is a no-op: it starts no
\* store read or write, changes no counters row, baseline or flag, and the
\* queue stays empty.
EmptyFlushIsNoOp ==
  [][(lastFlushEmpty' /\ ~lastFlushEmpty) =>
       /\ activityQueue = <<>> /\ activityQueue' = <<>>
       /\ UNCHANGED <<flush, rows, activity_settings, verified_users,
                      activityBaseline, userBehaviorTracker, aggCount,
                      failures, raced, nextId, now>>]_vars

\* a flush wrote a counters row, and a later one found the queue drained
FlushedThenEmpty ==
  /\ lastFlushEmpty
  /\ \E a \in Actors : rows[a].exists
  /\ \A f \in FlushIds : flush[f].pc = "idle"

\* ------------------------------------------------------------------ SpecUntracked: flushing without settings
\* Events of u1 are queued for g1, whose tracking an administrator switches
\* off and on, and for g2, which has no settings row; one flush at a time,
\* every store access succeeds.
NextUntracked ==
  \/ \E guildId \in Guilds, type \in QueueTypes :
       TrackActivity(guildId, "u1", type, 1)
  \/ \E enabled \in {0, 1} : ActivitySetup("g1", enabled)
  \/ ProcessBatch("f1")
  \/ LoadSettings("f1")
  \/ ReadDaily("f1")
  \/ WriteActivity("f1")

SpecUntracked == Init /\ [][NextUntracked]_vars

\* the flush writes the current update's row in this step
Writes(f) ==
  /\ flush[f].pc = "write"
  /\ rows' # rows

MaxTierCount == 3
MaxBalance == 3

\* tier tables: any thresholds, each multiplier either stored as 0 or a
\* value of its own
TierTables ==
  {<<[count |-> c1, multiplier |-> m1], [count |-> c2, multiplier |-> m2],
     [count |-> c3, multiplier |-> m3]>> :
     c1 \in 0..MaxTierCount, c2 \in 0..MaxTierCount, c3 \in 0..MaxTierCount,
     m1 \in {0, 110}, m2 \in {0, 130}, m3 \in {0, 160}}

\* trackActivity, for the first event only
TrackFirst(guildId, userId, type, value) ==
  /\ nextId = 0
  /\ TrackActivity(guildId, userId, type, value)

\* The tier table and the bonus switch of g1 and the verified holding of u1
\* are set, then one message of u1 is flushed.
NextTiers ==
  \/ \E tiers \in TierTables, bonus \in {0, 1} : ConfigureTiers("g1", tiers, bonus)
  \/ \E nftBalance \in 0..MaxBalance : upsertVerifiedUser("g1", "u1", nftBalance)
  \/ deleteVerifiedUser("g1", "u1")
  \/ TrackFirst("g1", "u1", "message", 1)
  \/ ProcessBatch("f1")
  \/ LoadSettings("f1")
  \/ ReadDaily("f1")
  \/ WriteActivity("f1")

SpecTiers == Init /\ [][NextTiers]_vars

\* the tier table of a settings row, with each tier's default multiplier
TiersOf(settings) ==
  <<[count |-> settings.nft_tier1_count,
     multiplier |-> settings.nft_tier1_multiplier, default |-> 100],
    [count |-> settings.nft_tier2_count,
     multiplier |-> settings.nft_tier2_multiplier, default |-> 120],
    [count |-> settings.nft_tier3_count,
     multiplier |-> settings.nft_tier3_multiplier, default |-> 150]>>

\* the tiers a holding count reaches
Qualifying(settings, verifiedUser) ==
  {k \in 1..3 : TiersOf(settings)[k].count <= verifiedUser.nft_balance}

NoBonus(settings, verifiedUser) ==
  settings.nft_bonus_enabled = 0 \/ ~verifiedUser.present

\* the multiplier a tier pays, a multiplier stored as 0 read as its default
Pays(settings, k) ==
  IF TiersOf(settings)[k].multiplier # 0
    THEN TiersOf(settings)[k].multiplier
    ELSE TiersOf(settings)[k].default

\* the score written for the flushed messages, in hundredths
WrittenScore(f) ==
  rows'[CurKey(flush[f])].total_score - rows[CurKey(flush[f])].total_score

\* the messages counted for them
WrittenMessages(f) ==
  rows'[CurKey(flush[f])].message_count - rows[CurKey(flush[f])].message_count

OneFlushAtATime ==
  \A f \in FlushIds, g \in FlushIds :
    (flush[f].pc # "idle" /\ flush[g].pc # "idle") => f = g

\* ------------------------------------------------------------------ SpecDelete: deleted messages
MaxDeletes == 2

\* Messages and replies of u1 are queued in both guilds and flushed one
\* flush at a time; messages of u1 in g1, replies or not, are deleted; the
\* weekly scores are reset for one guild or for all.
NextDelete ==
  \/ \E guildId \in Guilds, type \in QueueTypes :
       TrackActivity(guildId, "u1", type, 1)
  \/ ProcessBatch("f1")
  \/ LoadSettings("f1")
  \/ ReadDaily("f1")
  \/ WriteActivity("f1")
  \/ \E reference \in {"none", "other"} :
       /\ deliveries < MaxDeletes
       /\ Len(pending) < MaxInFlight
       /\ MessageDelete("g1", "u1", reference)
  \/ \E i \in 1..MaxInFlight : handleMessageDelete(i)
  \/ \E i \in 1..MaxInFlight : handleMessageDeleteUpdate(i)
  \/ \E guildId \in Guilds : resetWeeklyScores(guildId)
  \/ resetWeeklyActivity

SpecDelete == Init /\ [][NextDelete]_vars

\* a decrement of handleMessageDelete is applied to the handler's row
Decrements(i) ==
  /\ i \in 1..Len(pending)
  /\ pending[i].kind = "delete" /\ pending[i].pc \in {"message", "reply"}
  /\ pending' = RemoveAt(pending, i) \/ pending' = [pending EXCEPT ![i].pc = "reply"]
  /\ pending' # pending

\* C26: message_count, reply_count, total_score and week_score are never
\* negative, whatever batch updates, weekly resets and decrements have run,
\* and a decrement larger than the value it is taken from leaves exactly 0.
DecrementsFlooredAtZero ==
  [][/\ \A a \in Actors :
          /\ rows'[a].message_count >= 0 /\ rows'[a].reply_count >= 0
          /\ rows'[a].total_score >= 0 /\ rows'[a].week_score >= 0
     /\ \A i \in 1..MaxInFlight :
          Decrements(i) =>
            LET h == pending[i]
                key == <<h.guildId, h.userId>>
                deduction == IF h.pc = "message" THEN 100 ELSE 200
                count == IF h.pc = "message" THEN rows[key].message_count
                         ELSE rows[key].reply_count
                count2 == IF h.pc = "message" THEN rows'[key].message_count
                          ELSE rows'[key].reply_count
            IN /\ count < 1 => count2 = 0
               /\ rows[key].total_score < deduction => rows'[key].total_score = 0
               /\ rows[key].week_score < deduction => rows'[key].week_score = 0
               /\ (rows[key].exists /\ count >= 1) => count2 = count - 1
               /\ (rows[key].exists /\ rows[key].total_score >= deduction)
                    => rows'[key].total_score = rows[key].total_score - deduction]_vars

\* u1's score in g1, written with the 1.2 multiplier, can only be back at 0
\* by a decrement larger than what was left
FlooredByDelete ==
  /\ rows[<<"g1", "u1">>].exists
  /\ rows[<<"g1", "u1">>].total_score = 0
  /\ rows[<<"g1", "u1">>].message_count = 0
  /\ deliveries = MaxDeletes
  /\ pending = <<>>

\* ------------------------------------------------------------------ SpecSpike: the anomaly baseline
\* The baseline of u1 in g1 after n earlier days of activity, the oldest
\* with a total of first and the others of 1, and one unit yesterday.
BaselineAfter(n, first) ==
  [exists |-> TRUE,
   history |-> [k \in 1..n |->
                  [date |-> BASELINE_DAYS - n + k - 1,
                   score |-> IF k = 1 THEN first ELSE 1]],
   lastDate |-> BASELINE_DAYS, todayTotal |-> 1]

SpikeBaselines ==
  {NULL_BASELINE}
  \cup {BaselineAfter(n, first) : n \in 0..BASELINE_DAYS, first \in {1, 5}}

\* The process has run for some days; today is the day after yesterday's
\* activity.
InitSpike ==
  /\ InitStore
  /\ now = (BASELINE_DAYS + 1) * DayMs
  /\ \E b \in SpikeBaselines :
       activityBaseline = [a \in Actors |->
                             IF a = <<"g1", "u1">> THEN b ELSE NULL_BASELINE]
  /\ userBehaviorTracker = [a \in Actors |-> NULL_TRACKER]
  /\ discordClient = READY_CLIENT

\* u1 is active in g1 today and tomorrow; one flush at a time, whose write
\* may fail.
NextSpike ==
  \/ \E type \in {"message", "voice"} : \E value \in EventValues(type) :
       TrackActivity("g1", "u1", type, value)
  \/ Tick(DayMs, (BASELINE_DAYS + 1 + MaxDay) * DayMs)
  \/ ProcessBatch("f1")
  \/ LoadSettings("f1")
  \/ ReadDaily("f1")
  \/ ResetDaily("f1")
  \/ WriteActivity("f1")
  \/ BatchWriteFails("f1")

SpecSpike == InitSpike /\ [][NextSpike]_vars

SpikeKey == <<"g1", "u1">>

\* checkActivityAnomaly ran for u1 in this step
ChecksAnomaly == activityBaseline'[SpikeKey] # activityBaseline[SpikeKey]

HasSpikeFlag(trk) == trk.exists /\ Contains(trk.flags, "activity_spike")

\* the totals of the most recent days, at most BASELINE_DAYS of them
MostRecent(totals) ==
  IF Len(totals) > BASELINE_DAYS
    THEN SubSeq(totals, Len(totals) - BASELINE_DAYS + 1, Len(totals))
    ELSE totals

\* C27: activity_spike is raised for an actor exactly when, the batch
\* accumulated, the history (the totals of up to 7 most recent earlier days,
\* the oldest evicted first) has at least 3 entries and todayTotal is above
\* 5 times its mean; with fewer than 3 entries it is never raised.
SpikeExactlyAboveFiveTimesMean ==
  [][/\ ChecksAnomaly =>
          LET old == activityBaseline[SpikeKey]
              new == activityBaseline'[SpikeKey]
              n == Len(new.history)
              above == /\ n >= 3
                       /\ new.todayTotal * n > 5 * SumScores(new.history)
          IN /\ HasSpikeFlag(userBehaviorTracker'[SpikeKey])
                  <=> (above \/ HasSpikeFlag(userBehaviorTracker[SpikeKey]))
             /\ n <= 7
             /\ new.history =
                  IF old.exists /\ old.lastDate # new.lastDate
                    THEN MostRecent(Append(old.history,
                                           [date |-> old.lastDate,
                                            score |-> old.todayTotal]))
                    ELSE old.history
     /\ ~ChecksAnomaly => userBehaviorTracker'[SpikeKey] = userBehaviorTracker[SpikeKey]]_vars

\* a spike was flagged over a full history whose oldest day had been evicted
SpikeAfterEviction ==
  /\ HasSpikeFlag(userBehaviorTracker[SpikeKey])
  /\ Len(activityBaseline[SpikeKey].history) = 7
  /\ activityBaseline[SpikeKey].history[1].date = 1
  /\ activityBaseline[SpikeKey].todayTotal = 6

\* what the step added to u1's todayTotal
Accumulated ==
  LET old == activityBaseline[SpikeKey]
      new == activityBaseline'[SpikeKey]
  IN new.todayTotal
     - (IF old.exists /\ old.lastDate = new.lastDate THEN old.todayTotal ELSE 0)

\* what the step added to the four counters of u1's row
WrittenCounts ==
  (rows'[SpikeKey].message_count - rows[SpikeKey].message_count)
  + (rows'[SpikeKey].reply_count - rows[SpikeKey].reply_count)
  + (rows'[SpikeKey].reaction_count - rows[SpikeKey].reaction_count)
  + (rows'[SpikeKey].voice_minutes - rows[SpikeKey].voice_minutes)

\* what the batch held for u1, before the caps
BatchCounts(f) ==
  CurUpdate(flush[f]).message_count + CurUpdate(flush[f]).reply_count
  + CurUpdate(flush[f]).reaction_count + CurUpdate(flush[f]).voice_minutes

\* C28 (as stated): what is accumulated into todayTotal for a batch is what
\* was written to the actor's counters in that batch, after the caps, and it
\* is accumulated only once the batch is persisted.
AccumulatesWhatWasWritten ==
  [][ChecksAnomaly =>
       /\ Accumulated = WrittenCounts
       /\ activityQueue' = activityQueue]_vars

\* C28 (amended): what is accumulated into todayTotal for a batch is the sum
\* of the message, reply, reaction and voice amounts the batch held for the
\* actor, before the caps and whether or not anything was left to write, and
\* it is accumulated only once the batch update of the actor's community has
\* returned without error.
AccumulatesBatchCounts ==
  [][/\ ChecksAnomaly =>
          /\ flush["f1"].pc \in {"read", "write"}
          /\ Accumulated = BatchCounts("f1")
          /\ activityQueue' = activityQueue
          /\ flush["f1"].pc = "write" => rows'[SpikeKey] # rows[SpikeKey]
     /\ (flush["f1"].pc = "write" /\ flush'["f1"].pc # "write" /\ ~ChecksAnomaly)
          => /\ Len(activityQueue') > Len(activityQueue)
             /\ rows' = rows]_vars

\* three messages were accumulated today where the cap let two be written
AccumulatedOverCap ==
  /\ activityBaseline[SpikeKey].lastDate = BASELINE_DAYS + 1
  /\ activityBaseline[SpikeKey].todayTotal = 3
  /\ rows[SpikeKey].message_count = 2
  /\ rows[SpikeKey].voice_minutes = 0
  /\ flush["f1"].pc = "idle"
  /\ activityQueue = <<>>

\* ------------------------------------------------------------------ SpecReply: messages and replies
Thanks == <<116, 104, 97, 110, 107, 115>>
Morning == <<109, 111, 114, 110, 105, 110, 103>>

\* each text with its own kind of reference: a reply to someone else, a
\* reply whose original cannot be fetched, a reply to oneself, no reply, and
\* a reply too short to be scored
ReplyMessages ==
  {<<Hello, "other">>, <<WhatTime, "gone">>, <<Thanks, "self">>,
   <<Morning, "none">>, <<Hi, "other">>}

NextReply ==
  \/ \E m \in ReplyMessages :
       /\ deliveries < MaxMessages
       /\ Len(pending) < MaxInFlight
       /\ MessageCreate("g1", "u1", "c1", m[1], m[2])
  \/ \E i \in 1..MaxInFlight : handleMessage(i)
  \/ \E i \in 1..MaxInFlight : handleMessageReply(i)
  \/ Tick(cooldownMs, MaxCooldowns * cooldownMs)

SpecReply == Init /\ [][NextReply]_vars

\* the step appends exactly one event of the type, for the handler's actor
QueuesOne(i, type) ==
  /\ Len(activityQueue') = Len(activityQueue) + 1
  /\ SubSeq(activityQueue', 1, Len(activityQueue)) = activityQueue
  /\ activityQueue'[Len(activityQueue')].type = type
  /\ activityQueue'[Len(activityQueue')].guildId = pending[i].guildId
  /\ activityQueue'[Len(activityQueue')].userId = pending[i].userId
  /\ activityQueue'[Len(activityQueue')].value = 1

\* the fetch of the replied message of handler i comes back in this step
ResolvesReply(i) ==
  /\ pending[i].kind = "message" /\ pending[i].pc = "fetch"
  /\ pending' = RemoveAt(pending, i)

\* C29: an accepted message queues exactly one message event, and one reply
\* event besides exactly when it references a message of another author;
\* when the referenced message cannot be fetched the message event stays
\* and no reply event is queued.
OneMessageAndReplyToOthers ==
  [][\A i \in 1..Len(pending) :
       /\ FiltersMessage(i) =>
            IF lastReturn' = "scored"
              THEN /\ QueuesOne(i, "message")
                   /\ pending[i].reference = "none" => pending' = RemoveAt(pending, i)
                   /\ pending[i].reference # "none" => pending'[i].pc = "fetch"
              ELSE Unscored(i)
       /\ ResolvesReply(i) =>
            IF pending[i].reference = "other"
              THEN QueuesOne(i, "reply")
              ELSE activityQueue' = activityQueue]_vars

\* a reply to someone else was scored with its reply event, and then a
\* reply whose original could not be fetched was scored as a message alone
UnresolvedReplyScoredAsMessage ==
  /\ Len(activityQueue) = 3
  /\ activityQueue[1].type = "message"
  /\ activityQueue[2].type = "reply"
  /\ activityQueue[3].type = "message"
  /\ lastContent = WhatTime
  /\ lastReturn = "scored"
  /\ pending = <<>>

\* ------------------------------------------------------------------ SpecHistory: the duplicate history
MaxWords == 12
MaxAsides == 3

\* hello, thanks, morning, pizza, river, candle, window, guitar, planet,
\* orange, silver, yellow, monkey, butter: no two of them similar
Words ==
  <<<<104, 101, 108, 108, 111>>,
    <<116, 104, 97, 110, 107, 115>>,
    <<109, 111, 114, 110, 105, 110, 103>>,
    <<112, 105, 122, 122, 97>>,
    <<114, 105, 118, 101, 114>>,
    <<99, 97, 110, 100, 108, 101>>,
    <<119, 105, 110, 100, 111, 119>>,
    <<103, 117, 105, 116, 97, 114>>,
    <<112, 108, 97, 110, 101, 116>>,
    <<111, 114, 97, 110, 103, 101>>,
    <<115, 105, 108, 118, 101, 114>>,
    <<121, 101, 108, 108, 111, 119>>,
    <<109, 111, 110, 107, 101, 121>>,
    <<98, 117, 116, 116, 101, 114>>>>

\* u1 sends the words in order, and among the first of them "hi" and
\* "hello" again; with the clock at 0 or one cooldown later, most of them
\* come within the cooldown of the message scored before.
NextHistory ==
  \/ \E content \in {Words[deliveries + 1], Hi, Hello} :
       /\ deliveries < MaxWords
       /\ content # Words[deliveries + 1] => deliveries < MaxAsides
       /\ deliveries + 1 < Len(Words)
       /\ Len(pending) < MaxInFlight
       /\ MessageCreate("g1", "u1", "c1", content, "none")
  \/ \E i \in 1..MaxInFlight : handleMessage(i)
  \/ Tick(cooldownMs, MaxCooldowns * cooldownMs)

SpecHistory == Init /\ [][NextHistory]_vars

\* the last MESSAGE_HISTORY_SIZE of a list of messages
LastTen(messages) ==
  IF Len(messages) > 10
    THEN SubSeq(messages, Len(messages) - 9, Len(messages))
    ELSE messages

\* C30 (as stated): an actor's history is its last 10 accepted messages: it
\* never holds more than 10, the oldest is evicted first, an accepted
\* message is added and a message rejected by any check is not.
HistoryOfAccepted ==
  [][\A i \in 1..Len(pending) :
       FiltersMessage(i) =>
         LET h == pending[i]
             history == userMessageHistory[h.userId]
         IN /\ Len(userMessageHistory'[h.userId]) <= 10
            /\ userMessageHistory'[h.userId] =
                 IF lastReturn' = "scored"
                   THEN LastTen(Append(history, h.content))
                   ELSE history]_vars

\* C30 (amended): an actor's history is its last 10 messages of at least 5
\* characters that passed the length, gibberish and duplicate checks,
\* whether the cooldown or spam check then rejected them or not: it never
\* holds more than 10, the oldest is evicted first, and a message rejected
\* by the length, gibberish or duplicate check, or shorter than 5
\* characters, is not added.
HistoryOfNonDuplicates ==
  [][\A i \in 1..Len(pending) :
       FiltersMessage(i) =>
         LET h == pending[i]
             history == userMessageHistory[h.userId]
         IN /\ Len(userMessageHistory'[h.userId]) <= 10
            /\ userMessageHistory'[h.userId] =
                 IF /\ lastReturn' \in {"cooldown", "spam", "scored"}
                    /\ Len(h.content) >= 5
                   THEN LastTen(Append(history, h.content))
                   ELSE history]_vars

\* ten words are remembered, the first of the eleven sent evicted, and only
\* one of them was scored
EvictedOldest ==
  /\ Len(userMessageHistory["u1"]) = 10
  /\ userMessageHistory["u1"][1] = Words[2]
  /\ userMessageHistory["u1"][10] = Words[11]
  /\ Len(activityQueue) = 1
  /\ lastReturn = "cooldown"

\* ------------------------------------------------------------------ properties of overlapping batch writes
\* what getDailyActivity would return for the row as it is now
DailyNow(fl, row) ==
  IF ~row.exists \/ row.daily_reset_date # fl.gtoday
    THEN FreshDaily(fl.gtoday)
    ELSE DailyOf(row)

\* C31: the daily counters of one actor are changed as if the batch writes
\* touching it ran one after the other: every write leaves the daily
\* sub-counters that its clamp, taken against the row as it stands when the
\* write is applied, produces, and so at or below the caps.
DailyWritesSerialized ==
  [][\A f \in FlushIds :
       Writes(f) =>
         LET fl == flush[f]
             key == CurKey(fl)
             serial == EffectiveCounts(CurUpdate(fl), DailyNow(fl, rows[key]),
                                       CurSettings(fl))
             daily == DailyNow(fl, rows[key])
         IN /\ rows'[key].daily_messages = daily.daily_messages + serial.messages
            /\ rows'[key].daily_replies = daily.daily_replies + serial.replies
            /\ rows'[key].daily_reactions = daily.daily_reactions + serial.reactions
            /\ rows'[key].daily_voice = daily.daily_voice + serial.voice
            /\ WithinCaps(rows'[key], CurSettings(fl))]_vars

\* ------------------------------------------------------------------ SpecRetry: the retry loop
\* Messages of u1 are queued in both guilds; the flush timer keeps firing and
\* the store, after at most MaxFailures rejections, answers every access.
NextRetry ==
  \/ \E guildId \in Guilds : TrackActivity(guildId, "u1", "message", 1)
  \/ ProcessBatch("f1")
  \/ LoadSettings("f1")
  \/ LoadSettingsFails("f1")
  \/ ReadDaily("f1")
  \/ WriteActivity("f1")
  \/ BatchWriteFails("f1")

SpecRetry ==
  /\ Init
  /\ [][NextRetry]_vars
  /\ WF_vars(ProcessBatch("f1"))
  /\ WF_vars(LoadSettings("f1"))
  /\ WF_vars(ReadDaily("f1"))
  /\ WF_vars(WriteActivity("f1"))

\* event i has been aggregated by a flush and is held nowhere any more
Settled(i) ==
  /\ i <= nextId
  /\ aggCount[i] >= 1
  /\ Holders(i) = 0

\* C32: with a store whose failures are transient and a flush timer that
\* keeps firing, every event appended to the queue is eventually taken
\* through a flush to the store (or dropped there as untracked), and the
\* queue ends up empty for good.
EveryEventEventuallySettled ==
  /\ \A i \in 1..MaxEvents : [](nextId >= i => <>Settled(i))
  /\ <>[](activityQueue = <<>>)

\* ------------------------------------------------------------------ SpecShared: two tracked communities in one cycle
\* upsertActivitySettings for a community without a settings row: the row
\* /activity-setup creates (caps as in g1).
upsertActivitySettings(guildId) ==
  /\ ~activity_settings[guildId].present
  /\ activity_settings' =
       [activity_settings EXCEPT ![guildId] = SettingsRow(2, 1, 1, 2, 1)]
  /\ UNCHANGED <<now, verified_users, rows, activityQueue, flush,
                 activityBaseline, userBehaviorTracker, handlerVars, nextId,
                 aggCount, failures, raced, voiceVars, logVars>>

\* u1 sends one message in g1 and then messages in g2, so that the only
\* event of g1 is the first event of any cycle that holds it.
NextShared ==
  \/ upsertActivitySettings("g2")
  \/ nextId = 0 /\ TrackActivity("g1", "u1", "message", 1)
  \/ nextId >= 1 /\ TrackActivity("g2", "u1", "message", 1)
  \/ ProcessBatch("f1")
  \/ LoadSettings("f1")
  \/ LoadSettingsFails("f1")
  \/ ReadDaily("f1")
  \/ WriteActivity("f1")
  \/ BatchWriteFails("f1")

SpecShared == Init /\ [][NextShared]_vars

\* The step is a store access of cycle f failing inside batchUpdateActivity.
WriteFailsIn(f) ==
  /\ FailsIn(f)
  /\ flush[f].pc \in {"read", "reset", "write"}

\* C33 (as stated): whatever store failure hits the writes of g2, the one
\* message u1 sent in g1 is applied to u1's counters in g1 and to u1's
\* anomaly baseline there no more than once.
WrittenCommunityNotReapplied ==
  /\ rows[<<"g1", "u1">>].message_count <= 1
  /\ activityBaseline[<<"g1", "u1">>].todayTotal <= 1

\* C33 (amended): a failing store access of a batch write puts every event of
\* the cycle back on the queue, the events of a community already written in
\* that cycle included, and an event is applied to its community's counters
\* and baseline at most once more for each failed cycle.
FailureReappliesWritten ==
  /\ [][WriteFailsIn("f1") =>
          \A i \in EventIds(flush["f1"].events) : InQueue(i)']_vars
  /\ [](/\ rows[<<"g1", "u1">>].message_count <= 1 + failures
        /\ activityBaseline[<<"g1", "u1">>].todayTotal <= 1 + failures)

\* g1's message was written, g2's write failed, and the retry wrote g1's
\* message again.
WrittenTwiceAfterFailure ==
  /\ failures = 1
  /\ rows[<<"g1", "u1">>].message_count = 2
  /\ activityBaseline[<<"g1", "u1">>].todayTotal = 2

\* ---- properties of the two score columns
\* The step is a weekly reset: rows change while no cycle and no handler moves.
ResetsWeek ==
  /\ rows' # rows
  /\ flush' = flush
  /\ pending' = pending

\* C34: in every counters row week_score is at most total_score, whatever
\* batch updates, message-delete decrements and weekly resets have run; and
\* a weekly reset zeroes week_score in the rows it covers and changes no
\* other column of any row.
WeekScoreWithinTotal ==
  /\ [](\A a \in Actors : rows[a].week_score <= rows[a].total_score)
  /\ [][ResetsWeek =>
          \A a \in Actors :
            \/ rows'[a] = [rows[a] EXCEPT !.week_score = 0]
            \/ rows'[a] = rows[a]]_vars

\* A row written, reset, written again and decremented: week_score is
\* positive and below total_score.
WeekBelowTotalAfterDelete ==
  /\ deliveries >= 1
  /\ pending = <<>>
  /\ rows[<<"g1", "u1">>].week_score > 0
  /\ rows[<<"g1", "u1">>].week_score < rows[<<"g1", "u1">>].total_score

\* ------------------------------------------------------------------ SpecCross: one actor in two communities
\* u1 writes first in g2 and then, like u2, in g1; g2 becomes a tracked
\* community when its settings row is created.
NextCross ==
  \/ upsertActivitySettings("g2")
  \/ /\ deliveries = 0
     /\ MessageCreate("g2", "u1", "c1", Hello, "none")
  \/ \E userId \in Users, content \in {Hello, WhatTime} :
       /\ deliveries >= 1
       /\ deliveries < MaxMessages
       /\ Len(pending) < MaxInFlight
       /\ MessageCreate("g1", userId, "c1", content, "none")
  \/ \E i \in 1..MaxInFlight : handleMessage(i)
  \/ Wait(cooldownMs \div 2, SPAM_WINDOW_MS, MaxHalfCooldowns)

SpecCross == Init /\ [][NextCross]_vars

\* the scored messages of userId in guildId less than a cooldown old
RecentIn(guildIds, userId) ==
  {k \in MessagesOf(userId) :
     /\ activityQueue[k].guildId \in guildIds
     /\ now - activityQueue[k].timestamp < cooldownMs}

\* the three filter maps hold for userId after the step what they held before
FilterStateKept(userId) ==
  /\ recentMessages'[userId] = recentMessages[userId]
  /\ spamTracker'[userId] = spamTracker[userId]
  /\ userMessageHistory'[userId] = userMessageHistory[userId]

\* C35 (as stated): the outcome for an actor's message in a community depends
\* only on the actor's earlier messages in that community, so a message is
\* rejected for the cooldown only when the actor had a message scored in the
\* same community less than a cooldown before.
CooldownWithinCommunity ==
  [][\A i \in 1..MaxInFlight :
       (i <= Len(pending) /\ FiltersMessage(i) /\ Verdict(i).ret = "cooldown")
         => RecentIn({pending[i].guildId}, pending[i].userId) # {}]_vars

\* C35 (amended): the filter's state is kept per actor and shared by all
\* communities: a message is rejected for the cooldown only when the same
\* actor had a message scored in some community less than a cooldown before,
\* and filtering one actor's message leaves the cooldown, burst counter and
\* duplicate history of every other actor as they were.
FilterStatePerActor ==
  [][\A i \in 1..MaxInFlight :
       (i <= Len(pending) /\ FiltersMessage(i))
         => /\ Verdict(i).ret = "cooldown"
                 => RecentIn(Guilds, pending[i].userId) # {}
            /\ \A userId \in Users \ {pending[i].userId} :
                 FilterStateKept(userId)]_vars

\* u1's message in g1 was rejected for the cooldown although the only scored
\* message of u1 is the one u1 wrote in g2.
RejectedForOtherCommunity ==
  /\ lastReturn = "cooldown"
  /\ lastContent = WhatTime
  /\ pending = <<>>
  /\ MessagesOf("u1") # {}
  /\ \A k \in MessagesOf("u1") : activityQueue[k].guildId = "g2"

\* ------------------------------------------------------------------ SpecMove: an actor moving between voice channels
\* u1 joins, moves between and leaves the voice channels c1 and c2 of g1,
\* unmuted, while other members come and go in either channel.
Channels == {"c1", "c2"}

NextMove ==
  \/ \E channelId \in Channels, transition \in {"join", "update", "leave"} :
       /\ deliveries < MaxVoiceUpdates
       /\ Len(pending) < MaxInFlight
       /\ VoiceStateUpdate("g1", "u1", channelId, transition, FALSE, FALSE)
  \/ \E i \in 1..MaxInFlight : handleVoiceStateUpdate(i)
  \/ voiceTicks < MaxVoiceTicks /\ ProcessVoiceSessions
  \/ \E channelId \in Channels : PeersChange(channelId)
  \/ Wait(VoiceStepMs, LongStayMs, MaxShortWaits)

SpecMove == InitVoice /\ [][NextMove]_vars

\* Actor a has a session, is in a voice channel, and no voice state update
\* of anybody is still being handled.
SettledInVoice(a) ==
  /\ pending = <<>>
  /\ voiceSessions[a].exists
  /\ inVoice[a] # NO_CHANNEL

\* C36: the channel recorded in a session is the channel the actor is in
\* (once the voice state updates delivered so far are handled), and a run of
\* the voice timer credits a session a whole minute past its checkpoint
\* exactly when the channel the actor is in now has another member.
SessionChannelIsCurrent ==
  /\ [](\A a \in Actors :
          SettledInVoice(a) => voiceSessions[a].channelId = inVoice[a])
  /\ [][(voiceTicks' # voiceTicks /\ discordClient) =>
          \A a \in Actors :
            (SettledInVoice(a) /\ ElapsedMinutes(voiceSessions[a], now) >= 1)
              => (voiceSessions'[a].lastCheckpoint = now
                    <=> hasOtherUsers(inVoice[a], a))]_vars

\* ---- properties of the voice credit
\* The step queues a voice event for actor a.
CreditsVoice(a) ==
  /\ Len(activityQueue') = Len(activityQueue) + 1
  /\ activityQueue'[Len(activityQueue')].type = "voice"
  /\ activityQueue'[Len(activityQueue')].guildId = a[1]
  /\ activityQueue'[Len(activityQueue')].userId = a[2]

Credited == activityQueue'[Len(activityQueue')].value

\* The step is a run of the voice timer that skips a's session because the
\* actor is alone.
SkipsAlone(a) ==
  /\ voiceTicks' # voiceTicks
  /\ voiceSessions[a].exists
  /\ voiceSessions'[a].aloneAt = now
  /\ voiceSessions[a].aloneAt # now

VoiceEventsSince(queue, a, t) ==
  SelectSeq(queue, LAMBDA e : /\ e.type = "voice"
                              /\ e.guildId = a[1] /\ e.userId = a[2]
                              /\ e.timestamp > t)

NextUnscored ==
  \/ \E content \in {Hello, Hi} :
       /\ deliveries < MaxMessages
       /\ Len(pending) < MaxInFlight
       /\ MessageCreate("g1", "u1", "c1", content, "none")
  \/ \E i \in 1..MaxInFlight : handleMessage(i)
  \/ ProcessBatch("f1")
  \/ LoadSettings("f1")
  \/ ReadDaily("f1")
  \/ WriteActivity("f1")
  \/ /\ lastReturn = "length"
     /\ deliveries < MaxMessages
     /\ Len(pending) < MaxInFlight
     /\ MessageDelete("g1", "u1", "none")
  \/ \E i \in 1..MaxInFlight : handleMessageDelete(i)
  \/ \E i \in 1..MaxInFlight : handleMessageDeleteUpdate(i)

SpecUnscored == Init /\ [][NextUnscored]_vars

ReasonsOf(a) ==
  {FlagsOf(userBehaviorTracker[a])[k] :
     k \in 1..Len(FlagsOf(userBehaviorTracker[a]))}

\* C40: the flags of an actor are distinct reasons, so that raising a
\* recorded reason again changes neither their number nor the multiplier:
\* the multiplier is 0.5 only with two distinct reasons recorded and 0 only
\* with three or more.
FlagsAreDistinctReasons ==
  \A a \in Actors :
    /\ Cardinality(ReasonsOf(a)) = FlagCount(a)
    /\ getPenaltyMultiplier(a[1], a[2]) = 50 => Cardinality(ReasonsOf(a)) = 2
    /\ getPenaltyMultiplier(a[1], a[2]) = 0 => Cardinality(ReasonsOf(a)) >= 3

\* u2 has been flagged for two reasons and is at half score; u1 carries
\* three reasons and scores nothing.
HalvedByTwoBlockedByThree ==
  /\ ReasonsOf(<<"g1", "u2">>) = {"activity_spike", "reaction_farming"}
  /\ getPenaltyMultiplier("g1", "u2") = 50
  /\ Cardinality(ReasonsOf(<<"g1", "u1">>)) = 3
  /\ getPenaltyMultiplier("g1", "u1") = 0

====
